---- MODULE Spec2Model ----
(***************************************************************************)
(* A model of the wfs-ts operation dispatcher (src/src/client/WfsClient.ts) *)
(* and of the codecs it calls.                                             *)
(*                                                                         *)
(* One client instance is modelled.  Its state is the two cached fields    *)
(* (negotiatedVersion, capabilities), its immutable configuration, and one *)
(* record per call in flight.  A call advances in the atomic steps that    *)
(* JavaScript gives an async method: the code between two awaits runs as   *)
(* one action, and every request handed to the transport is answered by    *)
(* the environment in a later action (a response or a rejection).          *)
(*                                                                         *)
(* Data conventions                                                        *)
(*  - undefined is the string "undefined" where the value is a string;     *)
(*  - a piece of free text (an exception text or code) is a sequence of    *)
(*    word atoms, the units of the substring searches the code performs;   *)
(*  - a name that may carry a namespace prefix or a path (a type name, a   *)
(*    property key, a value reference) is a sequence of atoms in which     *)
(*    ":", "/" and "." are atoms of their own;                             *)
(*  - a response body is named, and BodyTable gives what the transport's   *)
(*    parseBody and the XML-tree primitive make of it.                     *)
(***************************************************************************)
EXTENDS Integers, Sequences, FiniteSets, TLC

VARIABLES
    config,             \* WfsClient.config (readonly after construction)
    negotiatedVersion,  \* WfsClient.negotiatedVersion
    capabilities,       \* WfsClient.capabilities
    calls               \* one record per call slot: the async method's frame

vars == <<config, negotiatedVersion, capabilities, calls>>

Undefined == "undefined"

EmptyMap == [k \in {} |-> Undefined]

\* Object spread / Object.assign: keys of b win over keys of a.
Merge(a, b) ==
    [k \in (DOMAIN a) \cup (DOMAIN b) |-> IF k \in DOMAIN b THEN b[k] ELSE a[k]]

\* a ?? b
Coalesce(a, b) == IF a = Undefined THEN b ELSE a

-----------------------------------------------------------------------------
(* core/constants.ts, core/version.ts, types.ts *)

DEFAULT_WFS_VERSION == "2.0.2"

SUPPORTED_VERSIONS == <<"2.0.2", "2.0.0", "1.1.0">>

WfsVersion == {"2.0.2", "2.0.0", "1.1.0"}

GEOJSON_OUTPUT_FORMATS == <<"application/json", "application/geo+json", "json">>

WfsOperation ==
    {"GetCapabilities", "DescribeFeatureType", "GetFeature", "GetFeatureWithLock",
     "GetPropertyValue", "Transaction", "LockFeature", "ListStoredQueries",
     "DescribeStoredQueries", "CreateStoredQuery", "DropStoredQuery"}

resolveInitialVersion(cfg) ==
    IF cfg.versionStrategy = Undefined \/ cfg.versionStrategy = "auto"
    THEN DEFAULT_WFS_VERSION
    ELSE cfg.versionStrategy

RECURSIVE AppendMissing(_, _)
AppendMissing(chain, rest) ==
    IF rest = <<>> THEN chain
    ELSE IF \E i \in 1..Len(chain) : chain[i] = Head(rest)
         THEN AppendMissing(chain, Tail(rest))
         ELSE AppendMissing(Append(chain, Head(rest)), Tail(rest))

\* getVersionFallbackChain without the chain.includes test: the preferred
\* version followed by every supported version.
getVersionFallbackChainRepeating(preferred, versionStrategy) ==
    IF versionStrategy # Undefined /\ versionStrategy # "auto"
    THEN <<versionStrategy>>
    ELSE <<preferred>> \o SUPPORTED_VERSIONS

getVersionFallbackChain(preferred, versionStrategy) ==
    IF versionStrategy # Undefined /\ versionStrategy # "auto"
    THEN <<versionStrategy>>
    ELSE AppendMissing(<<preferred>>, SUPPORTED_VERSIONS)

-----------------------------------------------------------------------------
(* Free text: sequences of word atoms.  String.prototype.toLowerCase maps   *)
(* every atom to its lower-case form; String.prototype.includes(k) for a    *)
(* one-word k asks whether k is one of the atoms.                           *)

LowerCaseOf ==
    ( "OutputFormat" :> "outputformat" @@ "outputFormat" :> "outputformat" @@
      "OUTPUTFORMAT" :> "outputformat" @@
      "InvalidParameterValue" :> "invalidparametervalue" @@
      "INVALIDPARAMETERVALUE" :> "invalidparametervalue" @@
      "OperationProcessingFailed" :> "operationprocessingfailed" @@
      "OperationNotSupported" :> "operationnotsupported" @@
      "NoApplicableCode" :> "noapplicablecode" @@
      "HTTP_ERROR" :> "http_error" @@
      "Unknown" :> "unknown" @@ "Invalid" :> "invalid" @@ "Exception" :> "exception" )

toLowerCase(text) ==
    [i \in 1..Len(text) |->
        IF text[i] \in DOMAIN LowerCaseOf THEN LowerCaseOf[text[i]] ELSE text[i]]

includes(text, word) == \E i \in 1..Len(text) : text[i] = word

\* An optional string: exceptionCode?: string, locator?: string.
NoString == [def |-> FALSE, s |-> <<>>]

SomeString(text) == [def |-> TRUE, s |-> text]

RECURSIVE JoinLines(_)
JoinLines(texts) ==
    IF texts = <<>> THEN <<>>
    ELSE IF Len(texts) = 1 THEN texts[1]
    ELSE texts[1] \o <<"\n">> \o JoinLines(Tail(texts))

-----------------------------------------------------------------------------
(* JSON values as JSON.parse returns them.  Every value has the same five   *)
(* fields; t is the JavaScript kind, and k lists an object's keys in         *)
(* insertion order where the code enumerates them (property objects).       *)

JUndefined == [t |-> "undefined", s |-> <<>>, o |-> EmptyMap, a |-> <<>>, k |-> <<>>]

JNull == [t |-> "null", s |-> <<>>, o |-> EmptyMap, a |-> <<>>, k |-> <<>>]

JStr(text) == [t |-> "string", s |-> text, o |-> EmptyMap, a |-> <<>>, k |-> <<>>]

\* An object whose key order the code never observes.
JObj(members) == [t |-> "object", s |-> <<>>, o |-> members, a |-> <<>>, k |-> <<>>]

JArr(items) == [t |-> "array", s |-> <<>>, o |-> EmptyMap, a |-> items, k |-> <<>>]

RECURSIVE PairsToMap(_)
PairsToMap(pairs) ==
    IF pairs = <<>> THEN EmptyMap
    ELSE Merge(Head(pairs)[1] :> Head(pairs)[2], PairsToMap(Tail(pairs)))

\* An object literal { k1: v1, k2: v2, ... } with distinct keys.
JOrdered(pairs) ==
    [t |-> "object", s |-> <<>>, o |-> PairsToMap(pairs), a |-> <<>>,
     k |-> [i \in 1..Len(pairs) |-> pairs[i][1]]]

\* record[key]
Get(v, key) == IF key \in DOMAIN v.o THEN v.o[key] ELSE JUndefined

\* key in record
Has(v, key) == key \in DOMAIN v.o

\* a ?? b on JSON values
JCoalesce(a, b) == IF a.t \in {"undefined", "null"} THEN b ELSE a

\* !v
Falsy(v) == v.t \in {"undefined", "null"} \/ (v.t = "string" /\ v.s = <<>>)

\* v && typeof v === "object"
IsObjectLike(v) == v.t \in {"object", "array"}

\* a JSON member read "as string | undefined"
AsOptString(v) == IF v.t = "string" THEN SomeString(v.s) ELSE NoString

-----------------------------------------------------------------------------
(* Response bodies.  A body is what the server sent; BodyTable gives, for   *)
(* each named body, its media kind ("xml", "json" or "empty"), the value    *)
(* JSON.parse makes of it, and the tree the XML primitive makes of it:      *)
(*   root       local name of the document element                          *)
(*   version    the document element's version attribute                    *)
(*   operations the ows:Operation nodes: name and the Get/Post hrefs        *)
(*   exceptions the Exception nodes: the exceptionCode, code and locator    *)
(*              attributes and the ExceptionText / exceptionText children   *)
(*   members    the features of the member / featureMember(s) containers    *)

XmlTree(root, version, operations, exceptions, members) ==
    [root |-> root, version |-> version, operations |-> operations,
     exceptions |-> exceptions, members |-> members]

\* What the XML primitive returns for text that holds no element.
NoTree == XmlTree(Undefined, Undefined, <<>>, <<>>, <<>>)

XmlBody(tree) == [kind |-> "xml", json |-> JUndefined, tree |-> tree]

JsonBody(value) == [kind |-> "json", json |-> value, tree |-> NoTree]

EmptyBody == [kind |-> "empty", json |-> JUndefined, tree |-> NoTree]

OperationNode(name, get, post) == [name |-> name, get |-> get, post |-> post]

ExceptionNode(exceptionCode, code, locator, upperTexts, lowerTexts) ==
    [exceptionCode |-> exceptionCode, code |-> code, locator |-> locator,
     ExceptionText |-> upperTexts, exceptionText |-> lowerTexts]

\* A GeoJSON feature whose properties are the given object.
Feature(properties) ==
    JObj("type" :> JStr(<<"Feature">>) @@ "properties" :> properties @@
         "geometry" :> JNull)

FeatureCollectionJson(features) ==
    JObj("type" :> JStr(<<"FeatureCollection">>) @@ "features" :> JArr(features))

PlainProperties ==
    JOrdered(<< << <<"name">>, JStr(<<"Main", "St">>) >> >>)

NoteProperties ==
    JOrdered(<< << <<"note">>,
                   JStr(<<"exception", "is", "just", "a", "regular", "word", "here">>) >> >>)

BodyTable ==
    ( "caps20" :> XmlBody(XmlTree("WFS_Capabilities", "2.0.0",
          << OperationNode("GetCapabilities", "https://srv/ows?get", Undefined),
             OperationNode("GetFeature", "https://srv/gf-get", "https://srv/gf-post"),
             OperationNode("Transaction", Undefined, "https://srv/tx-post"),
             OperationNode("GetPropertyValue", "https://srv/pv-get", Undefined),
             OperationNode("LockFeature", Undefined, Undefined),
             OperationNode("GetGmlObject", "https://srv/gml-get", Undefined) >>,
          <<>>, <<>>))
   @@ "caps11" :> XmlBody(XmlTree("WFS_Capabilities", "1.1.0",
          << OperationNode("GetFeature", Undefined, "https://srv11/gf-post"),
             OperationNode("DescribeFeatureType", "https://srv11/dft-get", Undefined) >>,
          <<>>, <<>>))
   @@ "caps10" :> XmlBody(XmlTree("WFS_Capabilities", "1.0.0",
          << OperationNode("GetFeature", "https://srv10/gf-get", Undefined) >>,
          <<>>, <<>>))
   @@ "capsNoVersion" :> XmlBody(XmlTree("WFS_Capabilities", Undefined, <<>>, <<>>, <<>>))
   @@ "excInvalidParameter" :> XmlBody(XmlTree("ExceptionReport", "2.0.0", <<>>,
          << ExceptionNode(SomeString(<<"InvalidParameterValue">>), NoString,
                           SomeString(<<"outputFormat">>),
                           << <<"Unknown", "output", "format">> >>, <<>>) >>, <<>>))
   @@ "excProcessingFailed" :> XmlBody(XmlTree("ExceptionReport", "2.0.0", <<>>,
          << ExceptionNode(NoString, SomeString(<<"OperationProcessingFailed">>),
                           NoString, <<>>, <<>>) >>, <<>>))
   @@ "excTextOutputFormat" :> XmlBody(XmlTree("ExceptionReport", "1.1.0", <<>>,
          << ExceptionNode(SomeString(<<"NoApplicableCode">>), NoString, NoString,
                           << <<"OutputFormat">>, <<"is", "not", "supported">> >>,
                           <<>>) >>, <<>>))
   @@ "excNotSupported" :> XmlBody(XmlTree("ExceptionReport", "2.0.0", <<>>,
          << ExceptionNode(SomeString(<<"OperationNotSupported">>), NoString,
                           NoString, << <<"no", "such", "operation">> >>, <<>>) >>,
          <<>>))
   @@ "excCodeOutputFormat" :> XmlBody(XmlTree("ExceptionReport", "2.0.0", <<>>,
          << ExceptionNode(SomeString(<<"Invalid", "OutputFormat">>), NoString,
                           NoString, << <<"bad", "request">> >>, <<>>) >>, <<>>))
   @@ "excTextInvalidParameter" :> XmlBody(XmlTree("ExceptionReport", "2.0.0", <<>>,
          << ExceptionNode(NoString, NoString, NoString,
                           <<>>, << <<"InvalidParameterValue", "for", "typeNames">> >>),
             ExceptionNode(SomeString(<<"NoApplicableCode">>), NoString, NoString,
                           << <<"OperationProcessingFailed">> >>, <<>>) >>, <<>>))
   @@ "empty" :> EmptyBody
   @@ "fcJson" :> JsonBody(FeatureCollectionJson(<< Feature(PlainProperties) >>))
   @@ "fcJsonEmpty" :> JsonBody(FeatureCollectionJson(<<>>))
   @@ "fcJsonNote" :> JsonBody(FeatureCollectionJson(<< Feature(NoteProperties) >>))
   @@ "fcXml" :> XmlBody(XmlTree("FeatureCollection", Undefined, <<>>, <<>>,
          << Feature(PlainProperties), Feature(NoteProperties) >>))
   @@ "valuesXml" :> XmlBody(XmlTree("ValueCollection", Undefined, <<>>, <<>>,
          << JStr(<<"Main", "St">>), JStr(<<"Elm", "St">>) >>))
   @@ "okXml" :> XmlBody(XmlTree("TransactionResponse", "2.0.0", <<>>, <<>>, <<>>))
   @@ "jsonExceptions" :> JsonBody(JObj("exceptions" :> JArr(
          << JObj("code" :> JStr(<<"InvalidParameterValue">>) @@
                  "locator" :> JStr(<<"outputFormat">>) @@
                  "text" :> JStr(<<"Unknown", "output", "format">>)),
             JStr(<<"not", "an", "object">>),
             JObj("detail" :> JStr(<<"no", "code", "and", "no", "text">>)) >>)))
   @@ "jsonInlineError" :> JsonBody(JObj("error" :>
          JObj("exceptionCode" :> JStr(<<"OperationNotSupported">>))))
   @@ "jsonErrorString" :> JsonBody(JObj("error" :> JStr(<<"Exception", "raised">>)))
   @@ "jsonEmptyReport" :> JsonBody(JObj("ExceptionReport" :>
          JObj("Exception" :> JArr(<<>>))))
   @@ "jsonArray" :> JsonBody(JArr(<< JStr(<<"Road", "A">>), JStr(<<"Road", "B">>) >>))
   @@ "jsonOk" :> JsonBody(JObj("ok" :> JStr(<<"true">>))) )

BodyNames == DOMAIN BodyTable

\* The properties objects a generated feature collection draws from.
PropertiesTable ==
    ( "plain" :> JOrdered(<< << <<"name">>, JStr(<<"Main", "St">>) >> >>)
   @@ "prefixed" :> JOrdered(<< << <<"topp", ":", "name">>, JStr(<<"Elm", "St">>) >>,
                              << <<"name">>, JStr(<<"Elm", "Street">>) >> >>)
   @@ "prefixedOnly" :> JOrdered(<< << <<"topp", ":", "name">>, JStr(<<"Oak", "St">>) >> >>)
   @@ "nested" :> JOrdered(
          << << <<"address">>,
                JOrdered(<< << <<"app", ":", "street">>, JStr(<<"Pine", "St">>) >>,
                            << <<"city">>, JNull >> >>) >>,
             << <<"kind">>, JStr(<<"road">>) >> >>)
   @@ "nullName" :> JOrdered(<< << <<"name">>, JNull >> >>)
   @@ "null" :> JNull )

PropertiesNames == DOMAIN PropertiesTable

\* A body as the environment sends it: a named body of BodyTable, or a
\* feature collection ("featuresJson": GeoJSON, "featuresXml": GML) whose
\* features carry the named properties objects, in order.
Named(name) == [name |-> name, members |-> <<>>]

Features(name, members) == [name |-> name, members |-> members]

BodyOf(body) ==
    LET features == [i \in 1..Len(body.members) |->
                        Feature(PropertiesTable[body.members[i]])]
    IN  CASE body.name = "featuresJson" -> JsonBody(FeatureCollectionJson(features))
          [] body.name = "featuresXml" ->
                XmlBody(XmlTree("FeatureCollection", Undefined, <<>>, <<>>, features))
          [] OTHER -> BodyTable[body.name]

-----------------------------------------------------------------------------
(* core/transport.ts: what a TransportResponse holds of a body.  A payload  *)
(* is either a string (str, read through the XML primitive as tree) or the  *)
(* value JSON.parse returned (json).                                        *)

StringPayload(tree) == [str |-> TRUE, json |-> JUndefined, tree |-> tree]

\* response.data = parseBody(rawData, contentType)
parseBody(body) ==
    IF BodyOf(body).kind = "json"
    THEN [str |-> FALSE, json |-> BodyOf(body).json, tree |-> NoTree]
    ELSE StringPayload(BodyOf(body).tree)

\* response.rawData: always the text
rawDataOf(body) == StringPayload(BodyOf(body).tree)

\* A reply of the environment to one request: the promise of
\* WfsTransport.request rejects with an error, or resolves with a response.
Rejection(err) ==
    [rejected |-> TRUE, error |-> err, status |-> 0, body |-> Named("empty")]

Response(status, body) ==
    [rejected |-> FALSE, error |-> "none", status |-> status, body |-> body]

-----------------------------------------------------------------------------
(* parsers/owsException.ts *)

OwsException(exceptionCode, locator, text) ==
    [exceptionCode |-> exceptionCode, locator |-> locator, text |-> text]

UnknownOwsException == <<"Unknown", "OWS", "exception">>

RECURSIVE JsonExceptionItems(_)
JsonExceptionItems(items) ==
    IF items = <<>> THEN <<>>
    ELSE LET item == Head(items)
             exceptionText == JCoalesce(Get(item, "exceptionText"), Get(item, "text"))
             exceptionCode == JCoalesce(Get(item, "exceptionCode"), Get(item, "code"))
             rest == JsonExceptionItems(Tail(items))
         IN  IF ~IsObjectLike(item) THEN rest
             ELSE IF Falsy(exceptionText) /\ Falsy(exceptionCode)
                     /\ Falsy(Get(item, "locator"))
                  THEN rest
                  ELSE << OwsException(
                             AsOptString(exceptionCode),
                             AsOptString(Get(item, "locator")),
                             IF exceptionText.t = "string" THEN exceptionText.s
                             ELSE UnknownOwsException) >> \o rest

parseJsonExceptions(payload) ==
    LET report == JCoalesce(Get(payload, "ExceptionReport"),
                    JCoalesce(Get(payload, "exceptionReport"),
                      JCoalesce(Get(payload, "error"), payload)))
        hasExplicitExceptionContainer ==
            Has(report, "Exception") \/ Has(report, "exceptions")
        hasInlineExceptionShape ==
            \/ Has(report, "exceptionCode") \/ Has(report, "exceptionText")
            \/ Has(report, "locator") \/ Has(report, "code") \/ Has(report, "text")
        candidateExceptions ==
            JCoalesce(Get(report, "Exception"),
              JCoalesce(Get(report, "exceptions"), report))
        array == IF candidateExceptions.t = "array" THEN candidateExceptions.a
                 ELSE <<candidateExceptions>>
    IN  IF ~IsObjectLike(report) THEN <<>>
        ELSE IF ~hasExplicitExceptionContainer /\ ~hasInlineExceptionShape THEN <<>>
        ELSE JsonExceptionItems(array)

XmlExceptionOf(node) ==
    LET textCandidates == node.ExceptionText \o node.exceptionText
        joined == JoinLines(textCandidates)
    IN  OwsException(
            IF node.exceptionCode.def THEN node.exceptionCode ELSE node.code,
            node.locator,
            IF joined = <<>> THEN UnknownOwsException ELSE joined)

parseOwsExceptionPayload(payload) ==
    IF ~payload.str
    THEN IF payload.json.t = "object" THEN parseJsonExceptions(payload.json) ELSE <<>>
    ELSE [i \in 1..Len(payload.tree.exceptions) |->
             XmlExceptionOf(payload.tree.exceptions[i])]

-----------------------------------------------------------------------------
(* parsers/capabilities.ts *)

CapabilitiesRoots == {"WFS_Capabilities", "WMT_MS_Capabilities", "Capabilities"}

CapabilitiesOperationBinding(get, post) == [get |-> get, post |-> post]

RECURSIVE OperationBindings(_, _)
OperationBindings(nodes, operations) ==
    IF nodes = <<>> THEN operations
    ELSE LET node == Head(nodes)
         IN  IF node.name = Undefined \/ node.name \notin WfsOperation
             THEN OperationBindings(Tail(nodes), operations)
             ELSE OperationBindings(Tail(nodes),
                    Merge(operations,
                          node.name :> CapabilitiesOperationBinding(node.get, node.post)))

ParsedCapabilities(version, operations) ==
    [cached |-> TRUE, version |-> version, operations |-> operations]

\* this.capabilities before the first successful fetch
NoCapabilities == [cached |-> FALSE, version |-> Undefined, operations |-> EmptyMap]

parseCapabilities(payload) ==
    IF ~payload.str THEN ParsedCapabilities(Undefined, EmptyMap)
    ELSE ParsedCapabilities(
             IF payload.tree.root \in CapabilitiesRoots THEN payload.tree.version
             ELSE Undefined,
             OperationBindings(payload.tree.operations, EmptyMap))

-----------------------------------------------------------------------------
(* parsers/featureCollection.ts and WfsClient.parseFeatureResponse: the     *)
(* result is the sequence of features (of values for parseValueCollection). *)

isGeoJsonFeatureCollection(payload) ==
    /\ ~payload.str
    /\ payload.json.t = "object"
    /\ Get(payload.json, "type") = JStr(<<"FeatureCollection">>)
    /\ Get(payload.json, "features").t = "array"

FeatureCollectionRoots == {"FeatureCollection", "SimpleFeatureCollection"}

parseFeatureCollection(payload) ==
    IF isGeoJsonFeatureCollection(payload) THEN Get(payload.json, "features").a
    ELSE IF ~payload.str THEN <<>>
    ELSE IF payload.tree.root \notin FeatureCollectionRoots THEN <<>>
    ELSE payload.tree.members

parseValueCollection(payload) ==
    IF ~payload.str
    THEN IF payload.json.t = "array" THEN payload.json.a ELSE <<>>
    ELSE IF payload.tree.root # "ValueCollection" THEN <<>>
    ELSE payload.tree.members

parseFeatureResponse(body) ==
    LET parsed == parseFeatureCollection(parseBody(body))
    IN  IF Len(parsed) > 0 THEN parsed
        ELSE parseFeatureCollection(rawDataOf(body))

-----------------------------------------------------------------------------
(* Call options (types.ts).  Only the fields the dispatcher and the builders *)
(* below read are carried; names are atom sequences such as                  *)
(* <<"topp", ":", "roads">>.                                                 *)

NoGeoServer ==
    [given |-> FALSE, cqlFilter |-> Undefined, viewParams |-> Undefined,
     formatOptions |-> Undefined, vendorParams |-> EmptyMap]

GeoServerOptions(cqlFilter, viewParams, formatOptions, vendorParams) ==
    [given |-> TRUE, cqlFilter |-> cqlFilter, viewParams |-> viewParams,
     formatOptions |-> formatOptions, vendorParams |-> vendorParams]

DefaultOptions ==
    [version |-> Undefined, requestStyle |-> Undefined, outputFormat |-> Undefined,
     typeNames |-> << <<"roads">> >>, propertyNames |-> <<>>,
     filterProperty |-> <<>>, valueReference |-> <<"name">>, count |-> Undefined,
     geoserver |-> NoGeoServer, rawKvp |-> EmptyMap, rawHeaders |-> EmptyMap]

-----------------------------------------------------------------------------
(* operations/kvp.ts *)

\* typeNames.join(","), propertyNames.join(",")
JoinComma(names) == [sep |-> ",", items |-> names]

\* compileFilterXml as far as the request carries it: dialect and property
FilterXml(filterProperty, version) ==
    [prefix |-> IF version = "1.1.0" THEN "ogc" ELSE "fes",
     property |-> filterProperty]

applyGeoServerParams(params, geoserver) ==
    IF ~geoserver.given THEN params
    ELSE LET p1 == IF geoserver.cqlFilter # Undefined
                   THEN Merge(params, "cql_filter" :> geoserver.cqlFilter) ELSE params
             p2 == IF geoserver.viewParams # Undefined
                   THEN Merge(p1, "viewParams" :> geoserver.viewParams) ELSE p1
             p3 == IF geoserver.formatOptions # Undefined
                   THEN Merge(p2, "format_options" :> geoserver.formatOptions) ELSE p2
         IN  Merge(p3, geoserver.vendorParams)

buildSimpleKvp(request, version, raw) ==
    Merge("service" :> "WFS" @@ "version" :> version @@ "request" :> request, raw)

buildCapabilitiesKvp(options, version) ==
    Merge("service" :> "WFS" @@ "version" :> version @@ "request" :> "GetCapabilities"
          @@ "acceptVersions" :> JoinComma(<<version>>),
          options.rawKvp)

buildDescribeFeatureTypeKvp(options, version) ==
    LET typeParamName == IF version = "1.1.0" THEN "typeName" ELSE "typeNames"
        base == "service" :> "WFS" @@ "version" :> version
                @@ "request" :> "DescribeFeatureType"
        typed == IF Len(options.typeNames) > 0
                 THEN Merge(base, typeParamName :> JoinComma(options.typeNames))
                 ELSE base
        formatted == IF options.outputFormat # Undefined
                     THEN Merge(typed, "outputFormat" :> options.outputFormat)
                     ELSE typed
    IN  Merge(formatted, options.rawKvp)

\* buildGetFeatureKvp writing the 2.0 parameter names at every version.
buildGetFeatureKvpUnversioned(options, version) ==
    LET p0 == "service" :> "WFS" @@ "version" :> version @@ "request" :> "GetFeature"
              @@ "typeNames" :> JoinComma(options.typeNames)
        p1 == IF options.count # Undefined
              THEN Merge(p0, "count" :> options.count) ELSE p0
    IN  Merge(applyGeoServerParams(p1, options.geoserver), options.rawKvp)

buildGetFeatureKvp(options, version) ==
    LET typeParamName == IF version = "1.1.0" THEN "typeName" ELSE "typeNames"
        p0 == "service" :> "WFS" @@ "version" :> version @@ "request" :> "GetFeature"
              @@ typeParamName :> JoinComma(options.typeNames)
        p1 == IF options.outputFormat # Undefined
              THEN Merge(p0, "outputFormat" :> options.outputFormat) ELSE p0
        p2 == IF Len(options.propertyNames) > 0
              THEN Merge(p1, "propertyName" :> JoinComma(options.propertyNames)) ELSE p1
        p3 == IF options.count # Undefined
              THEN Merge(p2, (IF version = "1.1.0" THEN "maxFeatures" ELSE "count")
                             :> options.count)
              ELSE p2
        p4 == IF options.filterProperty # <<>>
              THEN Merge(p3, "filter" :> FilterXml(options.filterProperty, version))
              ELSE p3
    IN  Merge(applyGeoServerParams(p4, options.geoserver), options.rawKvp)

buildGetPropertyValueKvp(options, version) ==
    LET typeParamName == IF version = "1.1.0" THEN "typeName" ELSE "typeNames"
        p0 == "service" :> "WFS" @@ "version" :> version
              @@ "request" :> "GetPropertyValue"
              @@ "valueReference" :> options.valueReference
              @@ typeParamName :> JoinComma(options.typeNames)
        p1 == IF options.count # Undefined
              THEN Merge(p0, "count" :> options.count) ELSE p0
        p2 == IF options.filterProperty # <<>>
              THEN Merge(p1, "filter" :> FilterXml(options.filterProperty, version))
              ELSE p1
    IN  Merge(applyGeoServerParams(p2, options.geoserver), options.rawKvp)

\* The kvp argument each public method passes to sendOperation.
KvpFor(operation, options, version) ==
    CASE operation = "GetCapabilities" -> buildCapabilitiesKvp(options, version)
      [] operation = "DescribeFeatureType" -> buildDescribeFeatureTypeKvp(options, version)
      [] operation = "GetFeature" -> buildGetFeatureKvp(options, version)
      [] operation = "GetFeatureWithLock" ->
            Merge(buildGetFeatureKvp(options, version),
                  "request" :> "GetFeatureWithLock")
      [] operation = "GetPropertyValue" -> buildGetPropertyValueKvp(options, version)
      [] OTHER -> buildSimpleKvp(operation, version, options.rawKvp)

-----------------------------------------------------------------------------
(* serializers/wfs.ts: the namespace resolver and the request documents.    *)
(* A prefix is the atom run in front of a ":" (usually one atom).           *)

RESERVED_PREFIXES ==
    { <<"wfs">>, <<"gml">>, <<"fes">>, <<"ogc">>, <<"ows">>, <<"xlink">>,
      <<"xml">>, <<"xmlns">> }

defaultNamespacesForVersion(version) ==
    IF version = "1.1.0"
    THEN ( <<"wfs">> :> "http://www.opengis.net/wfs"
        @@ <<"gml">> :> "http://www.opengis.net/gml"
        @@ <<"fes">> :> "http://www.opengis.net/ogc"
        @@ <<"ogc">> :> "http://www.opengis.net/ogc"
        @@ <<"ows">> :> "http://www.opengis.net/ows"
        @@ <<"xlink">> :> "http://www.w3.org/1999/xlink" )
    ELSE ( <<"wfs">> :> "http://www.opengis.net/wfs/2.0"
        @@ <<"gml">> :> "http://www.opengis.net/gml/3.2"
        @@ <<"fes">> :> "http://www.opengis.net/fes/2.0"
        @@ <<"ogc">> :> "http://www.opengis.net/fes/2.0"
        @@ <<"ows">> :> "http://www.opengis.net/ows/1.1"
        @@ <<"xlink">> :> "http://www.w3.org/1999/xlink" )

\* [A-Za-z_][A-Za-z0-9_.-]* : a run of name atoms and "." atoms that starts
\* with a name atom.
IsNameAtom(a) == a \notin {":", "/", "."}

IsRunAtom(a) == a \notin {":", "/"}

RECURSIVE RunEnd(_, _)
RunEnd(value, i) ==
    IF i < Len(value) /\ IsRunAtom(value[i + 1]) THEN RunEnd(value, i + 1) ELSE i

\* QNAME_PREFIX_PATTERN, matched globally from position i: the prefixes of
\* the successive leftmost matches, in order.
RECURSIVE QNamePrefixesFrom(_, _)
QNamePrefixesFrom(value, i) ==
    IF i > Len(value) THEN <<>>
    ELSE IF ~IsNameAtom(value[i]) THEN QNamePrefixesFrom(value, i + 1)
    ELSE LET j == RunEnd(value, i)
         IN  IF /\ j + 2 <= Len(value)
                /\ value[j + 1] = ":"
                /\ IsNameAtom(value[j + 2])
             THEN << SubSeq(value, i, j) >>
                  \o QNamePrefixesFrom(value, RunEnd(value, j + 2) + 1)
             ELSE QNamePrefixesFrom(value, i + 1)

collectQNamePrefixes(value) == QNamePrefixesFrom(value, 1)

RECURSIVE collectTypeNamePrefixes(_)
collectTypeNamePrefixes(typeNames) ==
    IF typeNames = <<>> THEN <<>>
    ELSE collectQNamePrefixes(Head(typeNames)) \o collectTypeNamePrefixes(Tail(typeNames))

\* collectFilterPrefixes for a comparison filter on filterProperty (<<>>: no filter)
collectFilterPrefixes(filterProperty) == collectQNamePrefixes(filterProperty)

\* The prefixes each XML builder requires, in the order it collects them.
RequiredPrefixes(operation, options) ==
    CASE operation \in {"GetFeature", "GetFeatureWithLock"} ->
            collectTypeNamePrefixes(options.typeNames)
            \o collectTypeNamePrefixes(options.propertyNames)
            \o collectFilterPrefixes(options.filterProperty)
      [] operation = "GetPropertyValue" ->
            collectTypeNamePrefixes(options.typeNames)
            \o collectQNamePrefixes(options.valueReference)
            \o collectFilterPrefixes(options.filterProperty)
      [] operation = "DescribeFeatureType" ->
            collectTypeNamePrefixes(options.typeNames)
      [] operation = "LockFeature" ->
            collectTypeNamePrefixes(options.typeNames)
            \o collectFilterPrefixes(options.filterProperty)
      [] operation = "Transaction" ->
            \* one update action per type name, editing propertyNames, with the filter
            collectTypeNamePrefixes(options.typeNames)
            \o collectTypeNamePrefixes(options.propertyNames)
            \o collectFilterPrefixes(options.filterProperty)
      [] OTHER -> <<>>

\* resolveRootNamespaces without the exemption of the reserved prefixes.
resolveRootNamespacesReservedRequired(ctx, requiredPrefixes) ==
    LET configured == [p \in {q \in DOMAIN ctx.namespaces : ctx.namespaces[q] # ""}
                          |-> ctx.namespaces[p]]
        namespaces == Merge(defaultNamespacesForVersion(ctx.version), configured)
        missing == {i \in 1..Len(requiredPrefixes) :
                       requiredPrefixes[i] \notin DOMAIN namespaces}
    IN  IF missing = {}
        THEN [ok |-> TRUE, namespaces |-> namespaces, prefix |-> <<>>]
        ELSE [ok |-> FALSE, namespaces |-> EmptyMap,
              prefix |-> requiredPrefixes[CHOOSE i \in missing :
                                              \A k \in missing : i <= k]]

\* resolveRootNamespaces asking whether the table lists the prefix, not
\* whether it gives it a URI.
resolveRootNamespacesByKey(ctx, requiredPrefixes) ==
    LET namespaces == Merge(defaultNamespacesForVersion(ctx.version), ctx.namespaces)
        missing == {i \in 1..Len(requiredPrefixes) :
                       /\ requiredPrefixes[i] \notin RESERVED_PREFIXES
                       /\ requiredPrefixes[i] \notin DOMAIN namespaces}
    IN  IF missing = {}
        THEN [ok |-> TRUE, namespaces |-> namespaces, prefix |-> <<>>]
        ELSE [ok |-> FALSE, namespaces |-> EmptyMap,
              prefix |-> requiredPrefixes[CHOOSE i \in missing :
                                              \A k \in missing : i <= k]]

\* resolveRootNamespaces: the namespace table of the root, or the first
\* required prefix that is not reserved and has no URI (the thrown Error).
resolveRootNamespaces(ctx, requiredPrefixes) ==
    LET configured == [p \in {q \in DOMAIN ctx.namespaces : ctx.namespaces[q] # ""}
                          |-> ctx.namespaces[p]]
        namespaces == Merge(defaultNamespacesForVersion(ctx.version), configured)
        missing == {i \in 1..Len(requiredPrefixes) :
                       /\ requiredPrefixes[i] \notin RESERVED_PREFIXES
                       /\ requiredPrefixes[i] \notin DOMAIN namespaces}
    IN  IF missing = {}
        THEN [ok |-> TRUE, namespaces |-> namespaces, prefix |-> <<>>]
        ELSE [ok |-> FALSE, namespaces |-> EmptyMap,
              prefix |-> requiredPrefixes[CHOOSE i \in missing :
                                              \A k \in missing : i <= k]]

\* The request document, as far as the dispatcher's claims read it: the root
\* element, its namespaces and attributes, and the query element.
XmlAttrs(operation, options, version) ==
    LET a0 == "service" :> "WFS" @@ "version" :> version
        a1 == IF operation \in {"GetFeature", "GetFeatureWithLock", "DescribeFeatureType"}
                 /\ options.outputFormat # Undefined
              THEN Merge(a0, "outputFormat" :> options.outputFormat) ELSE a0
        a2 == IF operation = "GetPropertyValue"
              THEN Merge(a1, "valueReference" :> options.valueReference) ELSE a1
    IN  IF operation \in {"GetFeature", "GetFeatureWithLock", "GetPropertyValue"}
           /\ options.count # Undefined
        THEN Merge(a2, (IF version = "1.1.0" THEN "maxFeatures" ELSE "count")
                       :> options.count)
        ELSE a2

XmlQuery(operation, options, version) ==
    IF operation \in {"GetFeature", "GetFeatureWithLock", "GetPropertyValue",
                      "LockFeature", "DescribeFeatureType", "Transaction"}
    THEN [typeNames |-> options.typeNames,
          propertyNames |-> IF operation \in {"GetFeature", "GetFeatureWithLock",
                                              "Transaction"}
                            THEN options.propertyNames ELSE <<>>,
          filter |-> IF operation # "DescribeFeatureType"
                        /\ options.filterProperty # <<>>
                     THEN FilterXml(options.filterProperty, version)
                     ELSE FilterXml(<<>>, version)]
    ELSE [typeNames |-> <<>>, propertyNames |-> <<>>, filter |-> FilterXml(<<>>, version)]

\* data: undefined
NoDocument ==
    [root |-> Undefined, namespaces |-> EmptyMap, attrs |-> EmptyMap,
     query |-> [typeNames |-> <<>>, propertyNames |-> <<>>,
                filter |-> FilterXml(<<>>, Undefined)]]

\* build<Operation>Xml(options, ctx): [ok, doc] or [ok = FALSE, prefix]
XmlFor(operation, options, ctx) ==
    LET ns == resolveRootNamespaces(ctx, RequiredPrefixes(operation, options))
    IN  IF ~ns.ok
        THEN [ok |-> FALSE, prefix |-> ns.prefix, doc |-> NoDocument]
        ELSE [ok |-> TRUE, prefix |-> <<>>,
              doc |-> [root |-> operation, namespaces |-> ns.namespaces,
                       attrs |-> XmlAttrs(operation, options, ctx.version),
                       query |-> XmlQuery(operation, options, ctx.version)]]


-----------------------------------------------------------------------------
(* errors.ts and the error paths of client/WfsClient.ts *)

NoContext ==
    [operation |-> Undefined, version |-> Undefined, url |-> Undefined,
     method |-> Undefined, status |-> 0]

\* The value a call settles with (or "pending").  kind is "returned",
\* "OwsExceptionError", "TransportError" (the transport's own rejection) or
\* "Error" (the serializer's missing-namespace Error).
Outcome(kind) ==
    [kind |-> kind, context |-> NoContext, exceptions |-> <<>>,
     rawPayload |-> StringPayload(NoTree), error |-> "none", prefix |-> <<>>,
     features |-> <<>>, values |-> <<>>, capabilities |-> NoCapabilities,
     body |-> Undefined]

Pending == Outcome("pending")

OwsExceptionError(context, exceptions, rawPayload) ==
    [Outcome("OwsExceptionError") EXCEPT
        !.context = context, !.exceptions = exceptions, !.rawPayload = rawPayload]

TransportError(err) == [Outcome("TransportError") EXCEPT !.error = err]

MissingNamespaceError(prefix) == [Outcome("Error") EXCEPT !.prefix = prefix]

defaultException(status) ==
    << OwsException(SomeString(<<"HTTP_ERROR">>), NoString,
                    <<"HTTP", "request", "failed", "with", "status", ToString(status)>>) >>

\* ensureNoError looking at the HTTP status only.
ensureNoErrorStatusOnly(operation, version, request, reply) ==
    IF reply.status >= 400
    THEN OwsExceptionError(
             [operation |-> operation, version |-> version, url |-> request.url,
              method |-> request.method, status |-> reply.status],
             defaultException(reply.status),
             parseBody(reply.body))
    ELSE Pending

\* ensureNoError: the OwsExceptionError it throws, or Pending when it returns.
\* The error's rawPayload is response.data.
ensureNoError(operation, version, request, reply) ==
    LET owsExceptions == parseOwsExceptionPayload(parseBody(reply.body))
    IN  IF reply.status >= 400 \/ Len(owsExceptions) > 0
        THEN OwsExceptionError(
                 [operation |-> operation, version |-> version, url |-> request.url,
                  method |-> request.method, status |-> reply.status],
                 IF Len(owsExceptions) > 0 THEN owsExceptions
                 ELSE defaultException(reply.status),
                 parseBody(reply.body))
        ELSE Pending

\* isOutputFormatException without the lower-casing of text and code.
isOutputFormatExceptionCaseSensitive(error) ==
    /\ error.kind = "OwsExceptionError"
    /\ \E i \in 1..Len(error.exceptions) :
          \/ includes(error.exceptions[i].text, "outputformat")
          \/ includes(error.exceptions[i].exceptionCode.s, "invalidparametervalue")
          \/ includes(error.exceptions[i].exceptionCode.s, "operationprocessingfailed")

\* isOutputFormatException without the instanceof test: every fault retries.
isOutputFormatExceptionAnyFault(error) == error.kind # "pending"

isOutputFormatException(error) ==
    /\ error.kind = "OwsExceptionError"
    /\ \E i \in 1..Len(error.exceptions) :
          LET lowerText == toLowerCase(error.exceptions[i].text)
              lowerCode == toLowerCase(error.exceptions[i].exceptionCode.s)
          IN  \/ includes(lowerText, "outputformat")
              \/ includes(lowerCode, "invalidparametervalue")
              \/ includes(lowerCode, "operationprocessingfailed")

-----------------------------------------------------------------------------
(* WfsClient.resolveValueReference and its helpers *)

RECURSIVE IndexOfFrom(_, _, _)
IndexOfFrom(value, atom, i) ==
    IF i > Len(value) THEN 0
    ELSE IF value[i] = atom THEN i
    ELSE IndexOfFrom(value, atom, i + 1)

localName(value) ==
    LET index == IndexOfFrom(value, ":", 1)
    IN  IF index >= 1 THEN SubSeq(value, index + 1, Len(value)) ELSE value

\* value.split(separator).filter(Boolean)
RECURSIVE SplitNonEmpty(_, _)
SplitNonEmpty(value, separator) ==
    LET cut == IndexOfFrom(value, separator, 1)
    IN  IF value = <<>> THEN <<>>
        ELSE IF cut = 0 THEN <<value>>
        ELSE IF cut = 1 THEN SplitNonEmpty(Tail(value), separator)
        ELSE << SubSeq(value, 1, cut - 1) >>
             \o SplitNonEmpty(SubSeq(value, cut + 1, Len(value)), separator)

valueReferencePaths(valueReference) ==
    LET separator == IF includes(valueReference, "/") THEN "/"
                     ELSE IF includes(valueReference, ".") THEN "." ELSE Undefined
        segments == SplitNonEmpty(valueReference, separator)
        localSegments == [i \in 1..Len(segments) |-> localName(segments[i])]
    IN  IF valueReference = <<>> \/ separator = Undefined THEN <<>>
        ELSE IF segments = <<>> THEN <<>>
        ELSE IF segments = localSegments THEN <<segments>>
        ELSE <<segments, localSegments>>

\* Object.keys(record).find(candidate => localName(candidate) === localSegment)
FallbackKey(record, localSegment) ==
    LET hits == {i \in 1..Len(record.k) : localName(record.k[i]) = localSegment}
    IN  IF hits = {} THEN <<>>
        ELSE record.k[CHOOSE i \in hits : \A j \in hits : i <= j]

RECURSIVE readPath(_, _)
readPath(current, path) ==
    IF path = <<>> THEN current
    ELSE IF ~IsObjectLike(current) THEN JUndefined
    ELSE IF Has(current, Head(path)) THEN readPath(Get(current, Head(path)), Tail(path))
    ELSE LET fallbackKey == FallbackKey(current, localName(Head(path)))
         IN  IF fallbackKey = <<>> THEN JUndefined
             ELSE readPath(Get(current, fallbackKey), Tail(path))

RECURSIVE FirstDefinedPath(_, _)
FirstDefinedPath(properties, paths) ==
    IF paths = <<>> THEN JUndefined
    ELSE LET pathValue == readPath(properties, Head(paths))
         IN  IF pathValue.t # "undefined" THEN pathValue
             ELSE FirstDefinedPath(properties, Tail(paths))

\* resolveValueReference trying the local name before the exact key.
resolveValueReferenceLocalFirst(properties, valueReference) ==
    LET direct == Get(properties, valueReference)
        localDirect == Get(properties, localName(valueReference))
    IN  IF ~IsObjectLike(properties) THEN JUndefined
        ELSE IF localDirect.t # "undefined" THEN localDirect
        ELSE IF direct.t # "undefined" THEN direct
        ELSE FirstDefinedPath(properties, valueReferencePaths(valueReference))

resolveValueReference(properties, valueReference) ==
    LET direct == Get(properties, valueReference)
        localReference == localName(valueReference)
        localDirect == Get(properties, localReference)
    IN  IF ~IsObjectLike(properties) THEN JUndefined
        ELSE IF direct.t # "undefined" THEN direct
        ELSE IF localReference # valueReference /\ localDirect.t # "undefined"
             THEN localDirect
        ELSE FirstDefinedPath(properties, valueReferencePaths(valueReference))

\* collection.features.map(resolveValueReference).filter(v => v !== undefined)
RECURSIVE ProjectValues(_, _)
ProjectValues(features, valueReference) ==
    IF features = <<>> THEN <<>>
    ELSE LET value == resolveValueReference(Get(Head(features), "properties"),
                                            valueReference)
             rest == ProjectValues(Tail(features), valueReference)
         IN  IF value.t # "undefined" THEN <<value>> \o rest ELSE rest

-----------------------------------------------------------------------------
(* client/WfsClient.ts: configuration, requests and the private helpers *)

BaseUrl == "https://example.test/wfs"

\* WfsClientConfig after the constructor's defaults are applied.
WfsClientConfig(versionStrategy, namespaces, geoserver, endpoints) ==
    [baseUrl |-> BaseUrl, versionStrategy |-> versionStrategy,
     namespaces |-> namespaces, geoserver |-> geoserver, endpoints |-> endpoints]

NoGeoServerConfig == [enabled |-> FALSE, defaultVendorParams |-> EmptyMap]

\* The request handed to WfsTransport.request.  purpose is "probe" for the
\* requests of resolveVersion and "operation" for those of sendOperation;
\* operation and version repeat the arguments ensureNoError is given.
TransportRequest(purpose, operation, version, method, url, params, data) ==
    [purpose |-> purpose, operation |-> operation, version |-> version,
     method |-> method, url |-> url, params |-> params, data |-> data,
     headers |-> EmptyMap]

NoParams == [def |-> FALSE, kvp |-> EmptyMap]

NoData == [def |-> FALSE, doc |-> NoDocument]

\* resolveVersion consulting the cached negotiated version before the call's
\* explicit version.
resolveVersionCachedFirst(cfg, negotiated, explicit) ==
    IF negotiated # Undefined /\ (cfg.versionStrategy = Undefined
                                  \/ cfg.versionStrategy = "auto")
    THEN [negotiate |-> FALSE, version |-> negotiated]
    ELSE IF explicit # Undefined
    THEN [negotiate |-> FALSE, version |-> explicit]
    ELSE IF cfg.versionStrategy # Undefined /\ cfg.versionStrategy # "auto"
    THEN [negotiate |-> FALSE, version |-> cfg.versionStrategy]
    ELSE [negotiate |-> TRUE, version |-> Undefined]

\* resolveVersion without the cached negotiated version: an auto client
\* negotiates on every call that names no version.
resolveVersionNeverCached(cfg, negotiated, explicit) ==
    IF explicit # Undefined
    THEN [negotiate |-> FALSE, version |-> explicit]
    ELSE IF cfg.versionStrategy # Undefined /\ cfg.versionStrategy # "auto"
    THEN [negotiate |-> FALSE, version |-> cfg.versionStrategy]
    ELSE [negotiate |-> TRUE, version |-> Undefined]

\* resolveVersion up to its first await: the version it returns at once, or
\* the decision to negotiate.
resolveVersion(cfg, negotiated, explicit) ==
    IF explicit # Undefined
    THEN [negotiate |-> FALSE, version |-> explicit]
    ELSE IF cfg.versionStrategy # Undefined /\ cfg.versionStrategy # "auto"
    THEN [negotiate |-> FALSE, version |-> cfg.versionStrategy]
    ELSE IF negotiated # Undefined
    THEN [negotiate |-> FALSE, version |-> negotiated]
    ELSE [negotiate |-> TRUE, version |-> Undefined]

\* const fallback = getVersionFallbackChain(preferred, versionStrategy)
FallbackOf(cfg) ==
    getVersionFallbackChain(resolveInitialVersion(cfg), cfg.versionStrategy)

\* resolveVersion after its loop: the version cached and returned when every
\* probe failed, here the last version tried.
negotiationDefaultLastTried(cfg) == FallbackOf(cfg)[Len(FallbackOf(cfg))]

\* resolveVersion after its loop: the version cached and returned when every
\* probe failed.
negotiationDefault(cfg) == DEFAULT_WFS_VERSION

\* The request of one iteration of resolveVersion's loop.
ProbeRequest(cfg, version) ==
    TransportRequest("probe", "GetCapabilities", version, "GET", cfg.baseUrl,
                     [def |-> TRUE, kvp |-> buildCapabilitiesKvp(DefaultOptions, version)],
                     NoData)

\* pickBinding without the fall-back to the other style's binding.
pickBindingOwnStyle(binding, style) ==
    IF style = "GET" THEN binding.get ELSE binding.post

pickBinding(binding, style) ==
    IF style = "GET" THEN Coalesce(binding.get, binding.post)
    ELSE Coalesce(binding.post, binding.get)

resolveEndpoint(cfg, caps, operation, style) ==
    IF operation \in DOMAIN cfg.endpoints THEN cfg.endpoints[operation]
    ELSE IF operation \in DOMAIN caps.operations
    THEN Coalesce(pickBinding(caps.operations[operation], style), cfg.baseUrl)
    ELSE cfg.baseUrl

\* The headers of an operation request: the Content-Type of a POST, then the
\* caller's raw headers spread over it.
OperationHeaders(requestStyle, rawHeaders) ==
    Merge(IF requestStyle = "POST"
          THEN ( "Content-Type" :> "text/xml; charset=UTF-8" ) ELSE EmptyMap,
          rawHeaders)

\* sendOperation handing over the kvp and the document whatever the style.
sendOperationBothParts(cfg, caps, operation, version, requestStyle, kvp, xml, rawHeaders) ==
    [TransportRequest("operation", operation, version, requestStyle,
                      resolveEndpoint(cfg, caps, operation, requestStyle),
                      [def |-> TRUE, kvp |-> kvp], [def |-> TRUE, doc |-> xml])
        EXCEPT !.headers = OperationHeaders(requestStyle, rawHeaders)]

\* sendOperation up to its await: the request it hands to the transport.
sendOperation(cfg, caps, operation, version, requestStyle, kvp, xml, rawHeaders) ==
    [TransportRequest("operation", operation, version, requestStyle,
                      resolveEndpoint(cfg, caps, operation, requestStyle),
                      IF requestStyle = "GET" THEN [def |-> TRUE, kvp |-> kvp]
                      ELSE NoParams,
                      IF requestStyle = "POST" THEN [def |-> TRUE, doc |-> xml]
                      ELSE NoData)
        EXCEPT !.headers = OperationHeaders(requestStyle, rawHeaders)]

withGeoServerDefaults(cfg, geoserver) ==
    IF ~cfg.geoserver.enabled THEN geoserver
    ELSE [geoserver EXCEPT
             !.given = TRUE,
             !.vendorParams = Merge(cfg.geoserver.defaultVendorParams,
                                    geoserver.vendorParams)]

createSerializerContext(cfg, version) ==
    [version |-> version, namespaces |-> cfg.namespaces]

\* The public methods, the operation each one performs and the request style
\* each one uses when the caller names none.
Methods ==
    {"getCapabilities", "describeFeatureType", "getFeature", "getFeatureWithLock",
     "getPropertyValue", "transaction", "lockFeature", "listStoredQueries",
     "describeStoredQueries", "createStoredQuery", "dropStoredQuery"}

OperationOf ==
    ( "getCapabilities" :> "GetCapabilities"
   @@ "describeFeatureType" :> "DescribeFeatureType"
   @@ "getFeature" :> "GetFeature"
   @@ "getFeatureWithLock" :> "GetFeatureWithLock"
   @@ "getPropertyValue" :> "GetPropertyValue"
   @@ "transaction" :> "Transaction"
   @@ "lockFeature" :> "LockFeature"
   @@ "listStoredQueries" :> "ListStoredQueries"
   @@ "describeStoredQueries" :> "DescribeStoredQueries"
   @@ "createStoredQuery" :> "CreateStoredQuery"
   @@ "dropStoredQuery" :> "DropStoredQuery" )

DefaultRequestStyle(method) ==
    IF method \in {"getCapabilities", "describeFeatureType", "getFeature",
                   "getPropertyValue"}
    THEN "GET" ELSE "POST"

\* baseOptions of getFeature, requestOptions of getFeatureWithLock, and the
\* caller's options for every other method.
RequestOptions(cfg, method, options) ==
    CASE method = "getFeature" ->
            [options EXCEPT
                !.geoserver = withGeoServerDefaults(cfg, options.geoserver),
                !.outputFormat = Coalesce(options.outputFormat,
                                          GEOJSON_OUTPUT_FORMATS[1])]
      [] method = "getFeatureWithLock" ->
            [options EXCEPT
                !.outputFormat = Coalesce(options.outputFormat,
                                          GEOJSON_OUTPUT_FORMATS[1])]
      [] OTHER -> options

\* The argument list of one sendOperation call and the call itself: the kvp
\* is built, then the document when the style is POST (the builder may throw
\* the missing-namespace Error), then the request is handed over.
BuildOperation(cfg, caps, method, version, options) ==
    LET operation == OperationOf[method]
        requestStyle == Coalesce(options.requestStyle, DefaultRequestStyle(method))
        kvp == KvpFor(operation, options, version)
        xml == IF requestStyle = "POST"
               THEN XmlFor(operation, options, createSerializerContext(cfg, version))
               ELSE [ok |-> TRUE, prefix |-> <<>>, doc |-> NoDocument]
    IN  [ok |-> xml.ok, prefix |-> xml.prefix,
         request |-> sendOperation(cfg, caps, operation, version, requestStyle,
                                   kvp, xml.doc, options.rawHeaders)]

-----------------------------------------------------------------------------
(* The frame of one public call.                                            *)
(*   pc        "idle", "probing" (a probe is in flight), "awaiting" (the    *)
(*             operation request is in flight), "retrying" (getFeature's    *)
(*             fallback request is in flight) or "done"                     *)
(*   method    the public method called, and options its argument           *)
(*   delegated getPropertyValue handed the call to getFeature               *)
(*   version   what resolveVersion returned to the public method            *)
(*   seen      this.negotiatedVersion as resolveVersion read it             *)
(*   reqs      the requests handed to the transport so far, in order        *)
(*   replies   the transport's answers, replies[i] answering reqs[i]        *)
(*   outcome   what the returned promise settled with                       *)

IdleCall ==
    [pc |-> "idle", method |-> Undefined, options |-> DefaultOptions,
     delegated |-> FALSE, version |-> Undefined, seen |-> Undefined,
     reqs |-> <<>>, replies |-> <<>>, outcome |-> Pending]

Last(seq) == seq[Len(seq)]

\* InnerMethod taking every call for a getFeature call, so that the catch
\* block of getFeature runs for every operation.
InnerMethodAlwaysFeature(call) == "getFeature"

\* The method whose body issued the call's operation requests.
InnerMethod(call) == IF call.delegated THEN "getFeature" ELSE call.method

\* The public method's code from the return of resolveVersion to its first
\* sendOperation.  getPropertyValue at 1.1.0 calls getFeature, which resolves
\* the version again (at once: an explicit, configured or cached version is
\* there) and sends a GetFeature request.
Dispatch(cfg, caps, negotiated, call, version) ==
    LET delegated == call.method = "getPropertyValue" /\ version = "1.1.0"
        inner == IF delegated THEN "getFeature" ELSE call.method
        again == resolveVersion(cfg, negotiated, call.options.version)
        innerVersion == IF delegated /\ ~again.negotiate THEN again.version
                        ELSE version
        built == BuildOperation(cfg, caps, inner, innerVersion,
                                RequestOptions(cfg, inner, call.options))
    IN  IF built.ok
        THEN [call EXCEPT !.pc = "awaiting", !.version = version,
                          !.delegated = delegated,
                          !.reqs = Append(@, built.request)]
        ELSE [call EXCEPT !.pc = "done", !.version = version,
                          !.delegated = delegated,
                          !.outcome = MissingNamespaceError(built.prefix)]

\* What the public method returns for a response that passed ensureNoError.
Returned(call, reply) ==
    LET inner == InnerMethod(call)
        features == parseFeatureResponse(reply.body)
    IN  CASE inner = "getCapabilities" ->
                [Outcome("returned") EXCEPT
                    !.capabilities = parseCapabilities(rawDataOf(reply.body))]
          [] inner = "getFeature" /\ call.delegated ->
                [Outcome("returned") EXCEPT
                    !.values = ProjectValues(features, call.options.valueReference)]
          [] inner \in {"getFeature", "getFeatureWithLock"} /\ ~call.delegated ->
                [Outcome("returned") EXCEPT !.features = features]
          [] inner = "getPropertyValue" ->
                [Outcome("returned") EXCEPT
                    !.values =
                        IF ~parseBody(reply.body).str
                           /\ parseBody(reply.body).json.t = "array"
                        THEN parseBody(reply.body).json.a
                        ELSE parseValueCollection(rawDataOf(reply.body))]
          [] OTHER -> [Outcome("returned") EXCEPT !.body = reply.body.name]

\* sendOperation from its await on: the rejection of the transport, the
\* error of ensureNoError, or Pending when the response is returned.
OperationFault(request, reply) ==
    IF reply.rejected THEN TransportError(reply.error)
    ELSE ensureNoError(request.operation, request.version, request, reply)

-----------------------------------------------------------------------------
(* Actions.  c is a call slot.                                              *)

\* A public method is called: resolveVersion runs up to its first await.  It
\* either returns at once, and the method goes on to its first sendOperation,
\* or hands the first probe to the transport.
Invoke(c, method, options) ==
    /\ calls[c].pc \in {"idle", "done"}
    /\ LET resolved == resolveVersion(config, negotiatedVersion, options.version)
           call == [IdleCall EXCEPT !.method = method, !.options = options,
                                    !.seen = negotiatedVersion]
       IN  calls' = [calls EXCEPT ![c] =
              IF resolved.negotiate
              THEN [call EXCEPT !.pc = "probing",
                                !.reqs = << ProbeRequest(config, FallbackOf(config)[1]) >>]
              ELSE Dispatch(config, capabilities, negotiatedVersion, call,
                            resolved.version)]
    /\ UNCHANGED <<config, negotiatedVersion, capabilities>>

\* The transport answers the probe in flight.  An accepted probe replaces the
\* cached capabilities and sets the negotiated version; a failed one (a
\* rejection or an error of ensureNoError) moves the loop on, and after the
\* last one the default version is cached.
ProbeReply(c, reply) ==
    /\ calls[c].pc = "probing"
    /\ LET call == [calls[c] EXCEPT !.replies = Append(@, reply)]
           probe == Last(call.reqs)
           fallback == FallbackOf(config)
           sent == Len(call.reqs)
           failed == OperationFault(probe, reply).kind # "pending"
           parsed == parseCapabilities(rawDataOf(reply.body))
           accepted == Coalesce(parsed.version, probe.version)
       IN  IF ~failed
           THEN /\ capabilities' = parsed
                /\ negotiatedVersion' = accepted
                /\ calls' = [calls EXCEPT ![c] =
                                Dispatch(config, parsed, accepted, call, accepted)]
           ELSE IF sent < Len(fallback)
           THEN /\ calls' = [calls EXCEPT ![c] =
                                [call EXCEPT !.reqs =
                                    Append(@, ProbeRequest(config, fallback[sent + 1]))]]
                /\ UNCHANGED <<negotiatedVersion, capabilities>>
           ELSE /\ negotiatedVersion' = negotiationDefault(config)
                /\ calls' = [calls EXCEPT ![c] =
                                Dispatch(config, capabilities,
                                         negotiationDefault(config),
                                         call, negotiationDefault(config))]
                /\ UNCHANGED capabilities
    /\ UNCHANGED config

\* CacheAfter keeping the bindings of the previous document for the operations
\* the new one does not list.
CacheAfterMerging(call, reply) ==
    LET parsed == parseCapabilities(rawDataOf(reply.body))
    IN  IF InnerMethod(call) = "getCapabilities"
        THEN [capabilities |->
                  [parsed EXCEPT !.operations = Merge(capabilities.operations, @)],
              negotiatedVersion |->
                  IF config.versionStrategy = "auto" /\ parsed.version # Undefined
                  THEN parsed.version ELSE negotiatedVersion]
        ELSE [capabilities |-> capabilities, negotiatedVersion |-> negotiatedVersion]

\* CacheAfter without the test of the version strategy: getCapabilities
\* stores the reported version on every client.
CacheAfterAnyStrategy(call, reply) ==
    LET parsed == parseCapabilities(rawDataOf(reply.body))
    IN  IF InnerMethod(call) = "getCapabilities"
        THEN [capabilities |-> parsed,
              negotiatedVersion |->
                  IF parsed.version # Undefined
                  THEN parsed.version ELSE negotiatedVersion]
        ELSE [capabilities |-> capabilities, negotiatedVersion |-> negotiatedVersion]

\* The cache writes of a public method after its response was accepted: only
\* getCapabilities has any.
CacheAfter(call, reply) ==
    LET parsed == parseCapabilities(rawDataOf(reply.body))
    IN  IF InnerMethod(call) = "getCapabilities"
        THEN [capabilities |-> parsed,
              negotiatedVersion |->
                  IF config.versionStrategy = "auto" /\ parsed.version # Undefined
                  THEN parsed.version ELSE negotiatedVersion]
        ELSE [capabilities |-> capabilities, negotiatedVersion |-> negotiatedVersion]

\* getFeature's catch block: the fallback request, built from baseOptions
\* with outputFormat cleared.
FallbackRequest(cfg, caps, call) ==
    LET baseOptions == RequestOptions(cfg, "getFeature", call.options)
        fallbackOptions == [baseOptions EXCEPT !.outputFormat = Undefined]
    IN  BuildOperation(cfg, caps, "getFeature", Last(call.reqs).version,
                       fallbackOptions)

\* The transport answers the operation request in flight.  A fault ends the
\* call with that fault, except that getFeature sends its fallback request
\* when isOutputFormatException accepts the fault.
OpReply(c, reply) ==
    /\ calls[c].pc = "awaiting"
    /\ LET call == [calls[c] EXCEPT !.replies = Append(@, reply)]
           fault == OperationFault(Last(call.reqs), reply)
           retry == FallbackRequest(config, capabilities, call)
           cache == CacheAfter(call, reply)
       IN  IF fault.kind = "pending"
           THEN /\ calls' = [calls EXCEPT ![c] =
                                [call EXCEPT !.pc = "done",
                                             !.outcome = Returned(call, reply)]]
                /\ capabilities' = cache.capabilities
                /\ negotiatedVersion' = cache.negotiatedVersion
           ELSE /\ calls' = [calls EXCEPT ![c] =
                                IF InnerMethod(call) = "getFeature"
                                   /\ isOutputFormatException(fault)
                                THEN IF retry.ok
                                     THEN [call EXCEPT !.pc = "retrying",
                                              !.reqs = Append(@, retry.request)]
                                     ELSE [call EXCEPT !.pc = "done",
                                              !.outcome =
                                                  MissingNamespaceError(retry.prefix)]
                                ELSE [call EXCEPT !.pc = "done", !.outcome = fault]]
                /\ UNCHANGED <<negotiatedVersion, capabilities>>
    /\ UNCHANGED config

\* The transport answers getFeature's fallback request: its response or its
\* fault is what the call settles with.
RetryReply(c, reply) ==
    /\ calls[c].pc = "retrying"
    /\ LET call == [calls[c] EXCEPT !.replies = Append(@, reply)]
           fault == OperationFault(Last(call.reqs), reply)
       IN  calls' = [calls EXCEPT ![c] =
              [call EXCEPT !.pc = "done",
                           !.outcome = IF fault.kind = "pending"
                                       THEN Returned(call, reply) ELSE fault]]
    /\ UNCHANGED <<config, negotiatedVersion, capabilities>>

-----------------------------------------------------------------------------
(* The dispatcher specification: one caller that awaits each call before    *)
(* making the next, against a server that answers as it likes.              *)

Slots == {"caller"}

Strategies == {"auto", "2.0.0"}

RoadsNamespaces == ( <<"topp">> :> "http://www.openplans.org/topp" )

EndpointTables == { EmptyMap, ( "GetFeature" :> "https://override.test/features" ) }

Configs ==
    { WfsClientConfig(strategy, RoadsNamespaces, NoGeoServerConfig, endpoints) :
          strategy \in Strategies, endpoints \in EndpointTables }

DispatchOptions ==
    { [DefaultOptions EXCEPT !.version = version, !.requestStyle = requestStyle] :
          version \in {Undefined, "1.1.0"}, requestStyle \in {Undefined, "POST"} }

TransportErrors == {"ECONNRESET"}

ProbeReplies ==
    { Rejection(err) : err \in TransportErrors }
    \cup { Response(200, Named(name)) : name \in {"caps20", "caps11", "capsNoVersion"} }
    \cup { Response(503, Named("empty")) }

DispatchReplies ==
    { Rejection(err) : err \in TransportErrors }
    \cup { Response(200, Named(name)) :
              name \in {"caps11", "fcJson", "excInvalidParameter", "excNotSupported"} }
    \cup { Response(500, Named("empty")) }

Init ==
    /\ config \in Configs
    /\ negotiatedVersion = Undefined
    /\ capabilities = NoCapabilities
    /\ calls = [c \in Slots |-> IdleCall]

Next ==
    \/ \E c \in Slots, method \in Methods, options \in DispatchOptions :
          Invoke(c, method, options)
    \/ \E c \in Slots, reply \in ProbeReplies : ProbeReply(c, reply)
    \/ \E c \in Slots, reply \in DispatchReplies : OpReply(c, reply)
    \/ \E c \in Slots, reply \in DispatchReplies : RetryReply(c, reply)

Spec == Init /\ [][Next]_vars

-----------------------------------------------------------------------------
(* Helpers of the properties below *)

\* The operation requests of a call (those of sendOperation) and the replies
\* they got, in order.
Probes(call) == SelectSeq(call.reqs, LAMBDA r : r.purpose = "probe")

OperationRequests(call) == SelectSeq(call.reqs, LAMBDA r : r.purpose = "operation")

OperationReplies(call) ==
    SubSeq(call.replies, Len(Probes(call)) + 1, Len(call.replies))

Without(map, key) == [k \in (DOMAIN map) \ {key} |-> map[k]]

-----------------------------------------------------------------------------
(* The output-format fallback of getFeature: a client with a fixed version  *)
(* (no negotiation), feature calls with and without an output format, and a *)
(* server that answers with collections and with exception reports.         *)

FormatConfigs ==
    { WfsClientConfig("2.0.0", RoadsNamespaces, NoGeoServerConfig, EmptyMap) }

FormatMethods == {"getFeature", "getFeatureWithLock", "getPropertyValue"}

FormatOptions ==
    { [DefaultOptions EXCEPT !.version = version, !.requestStyle = requestStyle,
                             !.outputFormat = outputFormat, !.rawKvp = rawKvp] :
          version \in {Undefined, "1.1.0"}, requestStyle \in {Undefined, "POST"},
          outputFormat \in {Undefined, "gml3"},
          rawKvp \in {EmptyMap, ( "outputFormat" :> "text/xml" )} }

FormatReplies ==
    { Rejection(err) : err \in TransportErrors }
    \cup { Response(200, Named(name)) :
              name \in {"fcJson", "fcXml", "excInvalidParameter", "excProcessingFailed",
                        "excTextOutputFormat", "excNotSupported", "excCodeOutputFormat",
                        "excTextInvalidParameter", "jsonExceptions"} }
    \cup { Response(400, Named("excInvalidParameter")), Response(500, Named("empty")) }

InitFormat ==
    /\ config \in FormatConfigs
    /\ negotiatedVersion = Undefined
    /\ capabilities = NoCapabilities
    /\ calls = [c \in Slots |-> IdleCall]

NextFormat ==
    \/ \E c \in Slots, method \in FormatMethods, options \in FormatOptions :
          Invoke(c, method, options)
    \/ \E c \in Slots, reply \in FormatReplies : OpReply(c, reply)
    \/ \E c \in Slots, reply \in FormatReplies : RetryReply(c, reply)

SpecFormat == InitFormat /\ [][NextFormat]_vars

\* text contains keyword, case-insensitively
ContainsIgnoringCase(text, keyword) == includes(toLowerCase(text), keyword)

\* The fault of the first attempt is an OwsExceptionError with an exception
\* whose text contains "outputformat" or whose code contains
\* "invalidparametervalue" or "operationprocessingfailed".
C1_FormatFault(fault) ==
    /\ fault.kind = "OwsExceptionError"
    /\ \E i \in 1..Len(fault.exceptions) :
          \/ ContainsIgnoringCase(fault.exceptions[i].text, "outputformat")
          \/ ContainsIgnoringCase(fault.exceptions[i].exceptionCode.s,
                                  "invalidparametervalue")
          \/ ContainsIgnoringCase(fault.exceptions[i].exceptionCode.s,
                                  "operationprocessingfailed")

\* The reading of the claim: any of the three keywords in the text or in the code.
C1_FormatFaultAsStated(fault) ==
    /\ fault.kind = "OwsExceptionError"
    /\ \E i \in 1..Len(fault.exceptions) :
          \E keyword \in {"outputformat", "invalidparametervalue",
                          "operationprocessingfailed"} :
             \/ ContainsIgnoringCase(fault.exceptions[i].text, keyword)
             \/ ContainsIgnoringCase(fault.exceptions[i].exceptionCode.s, keyword)

\* second is first with the outputFormat option cleared: same operation,
\* version, method and URL, the same parameters but outputFormat (which only a
\* raw.kvp override can still set), the same document but its outputFormat
\* attribute.
C1_SameQueryWithoutFormat(first, second, rawKvp) ==
    /\ second.operation = "GetFeature" /\ second.operation = first.operation
    /\ second.version = first.version
    /\ second.method = first.method
    /\ second.url = first.url
    /\ second.params.def = first.params.def
    /\ second.params.kvp =
          Merge(Without(first.params.kvp, "outputFormat"),
                IF first.params.def THEN rawKvp ELSE EmptyMap)
    /\ second.data.def = first.data.def
    /\ second.data.doc =
          [first.data.doc EXCEPT !.attrs = Without(@, "outputFormat")]

C1_Body(c, FormatFault(_), allowRaw) ==
    LET call == calls[c]
        requests == OperationRequests(call)
        replies == OperationReplies(call)
        firstFault == OperationFault(requests[1], replies[1])
        lastFault == OperationFault(requests[2], replies[2])
    IN  (InnerMethod(call) = "getFeature" /\ Len(requests) >= 1) =>
           /\ Len(requests) <= 2
           /\ Len(requests) = 2 <=> (Len(replies) >= 1 /\ FormatFault(firstFault))
           /\ Len(requests) = 2 =>
                 /\ C1_SameQueryWithoutFormat(requests[1], requests[2],
                        IF allowRaw THEN call.options.rawKvp ELSE EmptyMap)
                 /\ call.pc = "done" <=> Len(replies) = 2
                 /\ call.pc = "done" =>
                       call.outcome = IF lastFault.kind = "pending"
                                      THEN Returned(call, replies[2])
                                      ELSE lastFault

\* C1 (as amended): getFeature sends a second GetFeature request if and only
\* if its first attempt failed with an OwsExceptionError having an exception
\* whose text contains "outputformat" or whose code contains
\* "invalidparametervalue" or "operationprocessingfailed" (case-insensitively);
\* the second request is the first with the outputFormat option cleared, no
\* third request follows, and the second request's parsed result or fault is
\* what the call settles with.
C1_RetryOnFormatFault == \A c \in DOMAIN calls : C1_Body(c, C1_FormatFault, TRUE)

\* C1 as stated: the retry happens for any of the three keywords in the text
\* or in the code, and the second request carries no outputFormat at all.
C1_AsStated == \A c \in DOMAIN calls : C1_Body(c, C1_FormatFaultAsStated, FALSE)

\* A getFeature call whose first attempt failed on the output format, whose
\* fallback request was answered with a collection, and which returned it.
C1_Witness ==
    \E c \in DOMAIN calls :
       /\ calls[c].method = "getFeature" /\ calls[c].pc = "done"
       /\ Len(OperationRequests(calls[c])) = 2
       /\ calls[c].outcome.kind = "returned"
       /\ Len(calls[c].outcome.features) > 0

-----------------------------------------------------------------------------
(* Properties of the dispatcher specification Spec *)

StrategyIsFixed == config.versionStrategy # Undefined /\ config.versionStrategy # "auto"

\* C2: the version of a call's requests is the call's explicit version if
\* given; otherwise the configured fixed version if the strategy is not
\* "auto"; otherwise the negotiated version cached when the call was made, if
\* one was; and the call sends negotiation probes only when none of the three
\* applies.
C2_VersionPrecedence ==
    \A c \in DOMAIN calls :
       LET call == calls[c]
           explicit == call.options.version
           expected == IF explicit # Undefined THEN explicit
                       ELSE IF StrategyIsFixed THEN config.versionStrategy
                       ELSE call.seen
       IN  call.pc # "idle" =>
              /\ Probes(call) # <<>> <=>
                    (explicit = Undefined /\ ~StrategyIsFixed /\ call.seen = Undefined)
              /\ Probes(call) = <<>> =>
                    /\ call.version = expected
                    /\ \A i \in 1..Len(call.reqs) : call.reqs[i].version = expected

\* A call without an explicit version on an auto client that used the cached
\* negotiated version, and one with an explicit version that differs from it.
C2_Witness ==
    \E c \in DOMAIN calls :
       /\ calls[c].pc = "done" /\ ~StrategyIsFixed
       /\ calls[c].seen = "2.0.0"
       /\ calls[c].options.version = "1.1.0"
       /\ Len(calls[c].reqs) = 1 /\ calls[c].reqs[1].version = "1.1.0"

\* The endpoint the claim names for an operation request.
C5_Endpoint(caps, operation, style) ==
    LET binding == caps.operations[operation]
        own == IF style = "GET" THEN binding.get ELSE binding.post
        other == IF style = "GET" THEN binding.post ELSE binding.get
    IN  IF operation \in DOMAIN config.endpoints THEN config.endpoints[operation]
        ELSE IF operation \notin DOMAIN caps.operations THEN config.baseUrl
        ELSE IF own # Undefined THEN own
        ELSE IF other # Undefined THEN other
        ELSE config.baseUrl

\* C5: every operation request goes to the endpoint configured for the
\* operation if there is one; otherwise to the cached capabilities' binding
\* for the operation in the request's own style, or in the other style when
\* the own style has none; otherwise to the base URL.
C5_EndpointPrecedence ==
    [][\A c \in DOMAIN calls :
          (calls'[c].pc \in {"awaiting", "retrying"} /\ calls'[c].pc # calls[c].pc) =>
             LET request == Last(calls'[c].reqs)
             IN  /\ request.purpose = "operation"
                 /\ request.url = C5_Endpoint(capabilities', request.operation,
                                              request.method)]_vars

\* A GET GetFeature request sent to the POST binding of the cached
\* capabilities, which list no GET binding for it.
C5_Witness ==
    \E c \in DOMAIN calls :
       /\ calls[c].pc = "awaiting"
       /\ Last(calls[c].reqs).operation = "GetFeature"
       /\ Last(calls[c].reqs).method = "GET"
       /\ Last(calls[c].reqs).url = "https://srv11/gf-post"
       /\ capabilities.operations["GetFeature"].get = Undefined

\* Every probe of the fallback chain was sent and failed.
C6_AllProbesFailed(call) ==
    /\ Len(Probes(call)) = Len(FallbackOf(config))
    /\ Len(call.replies) >= Len(Probes(call))
    /\ \A i \in 1..Len(Probes(call)) :
          OperationFault(call.reqs[i], call.replies[i]).kind # "pending"

\* C6: when every negotiation probe of a call on an auto client fails, the
\* call raises nothing for it: it resolves to version 2.0.2, still sends its
\* operation request at that version, and settles with a failure only if an
\* operation request faulted, with that fault.
C6_ProbeFailuresSwallowed ==
    \A c \in DOMAIN calls :
       LET call == calls[c]
           requests == OperationRequests(call)
           replies == OperationReplies(call)
       IN  C6_AllProbesFailed(call) =>
              /\ call.version = "2.0.2"
              /\ Len(requests) >= 1
              /\ \A i \in 1..Len(requests) : requests[i].version = "2.0.2"
              /\ call.pc = "done" =>
                    /\ Len(replies) = Len(requests)
                    /\ call.outcome.kind \in {"returned", "OwsExceptionError",
                                              "TransportError"}
                    /\ call.outcome.kind # "returned" =>
                          call.outcome = OperationFault(Last(requests), Last(replies))

\* A call whose three probes were all rejected or refused and which still
\* returned its operation's result.
C6_Witness ==
    \E c \in DOMAIN calls :
       /\ C6_AllProbesFailed(calls[c])
       /\ Len(Probes(calls[c])) = 3
       /\ calls[c].replies[1].rejected /\ ~calls[c].replies[2].rejected
       /\ calls[c].pc = "done" /\ calls[c].outcome.kind = "returned"

\* C7: when the transport rejects an operation request, the call settles with
\* that very rejection and hands no further request to the transport; in
\* particular getFeature sends no fallback request after a transport failure.
C7_TransportFailurePropagates ==
    \A c \in DOMAIN calls :
       LET call == calls[c]
           first == Len(Probes(call)) + 1
       IN  \A i \in first..Len(call.replies) :
              call.replies[i].rejected =>
                 /\ Len(call.reqs) = i
                 /\ call.pc = "done"
                 /\ call.outcome = TransportError(call.replies[i].error)

\* A getFeature call whose first request the transport rejected.
C7_Witness ==
    \E c \in DOMAIN calls :
       /\ calls[c].method = "getFeature" /\ calls[c].pc = "done"
       /\ Len(OperationReplies(calls[c])) = 1
       /\ OperationReplies(calls[c])[1].rejected
       /\ calls[c].outcome.kind = "TransportError"

\* In this step call slot c received a response that ends a successful
\* capabilities fetch: an accepted probe, or the accepted response of a
\* getCapabilities call.
C8_Fetched(c) ==
    /\ \/ calls[c].pc = "probing"
       \/ calls[c].pc = "awaiting" /\ calls[c].method = "getCapabilities"
    /\ Len(calls'[c].replies) = Len(calls[c].replies) + 1
    /\ OperationFault(Last(calls[c].reqs), Last(calls'[c].replies)).kind = "pending"

\* C8: a successful capabilities fetch (an accepted probe or a getCapabilities
\* call) replaces the cached capabilities by the document it parsed, keeping
\* nothing of the previous one, and no other step changes them.
C8_CapabilitiesReplaced ==
    [][/\ \A c \in DOMAIN calls :
             C8_Fetched(c) =>
                capabilities' =
                    parseCapabilities(rawDataOf(Last(calls'[c].replies).body))
       /\ capabilities' # capabilities => \E c \in DOMAIN calls : C8_Fetched(c)]_vars

\* A getCapabilities call that negotiated against a 2.0.0 document and then
\* fetched a 1.1.0 document: the cache holds the second document only.
C8_Witness ==
    \E c \in DOMAIN calls :
       /\ calls[c].method = "getCapabilities" /\ calls[c].pc = "done"
       /\ Len(Probes(calls[c])) = 1
       /\ calls[c].replies[1].body.name = "caps20"
       /\ calls[c].outcome.kind = "returned"
       /\ capabilities = calls[c].outcome.capabilities
       /\ DOMAIN capabilities.operations = {"GetFeature", "DescribeFeatureType"}

-----------------------------------------------------------------------------
(* The failure check of responses: a client with a fixed version and a      *)
(* server that answers every status with every kind of payload.             *)

ErrorMethods == {"getCapabilities", "getFeature", "getPropertyValue", "transaction"}

ErrorOptions ==
    { [DefaultOptions EXCEPT !.requestStyle = requestStyle] :
          requestStyle \in {Undefined, "POST"} }

ErrorStatuses == {200, 204, 399, 400, 404, 500}

ErrorBodies ==
    {"fcJson", "fcJsonNote", "fcXml", "okXml", "empty", "excInvalidParameter",
     "excNotSupported", "jsonExceptions", "jsonInlineError", "jsonErrorString",
     "jsonEmptyReport", "jsonArray", "jsonOk"}

ErrorReplies ==
    { Response(status, Named(name)) : status \in ErrorStatuses, name \in ErrorBodies }

NextError ==
    \/ \E c \in Slots, method \in ErrorMethods, options \in ErrorOptions :
          Invoke(c, method, options)
    \/ \E c \in Slots, reply \in ErrorReplies : OpReply(c, reply)
    \/ \E c \in Slots, reply \in ErrorReplies : RetryReply(c, reply)

SpecError == InitFormat /\ [][NextError]_vars

\* The error the call raised for the response to its i-th operation request,
\* or Pending if it raised none: a fault of the first of two requests is the
\* one getFeature caught before its fallback request.
C3_Raised(call, i) ==
    LET fault == OperationFault(OperationRequests(call)[i], OperationReplies(call)[i])
    IN  IF i < Len(OperationRequests(call)) THEN fault
        ELSE IF call.pc = "done" /\ call.outcome.kind = "OwsExceptionError"
        THEN call.outcome
        ELSE Pending

\* C3: for every response to an operation request the call raises an
\* OwsExceptionError exactly when the status is >= 400 or the payload parses to
\* at least one OWS exception.  The error carries the operation, the version,
\* the request's URL and method, the status and the response's payload; its
\* exception list is the parsed one, or the single synthesized HTTP_ERROR entry
\* when nothing was parsed, so never empty.  A GeoJSON FeatureCollection whose
\* property values contain the word "exception", with status < 400, raises
\* nothing.
C3_UniformFailureCheck ==
    \A c \in DOMAIN calls :
       \A i \in 1..Len(OperationReplies(calls[c])) :
          LET call == calls[c]
              request == OperationRequests(call)[i]
              reply == OperationReplies(call)[i]
              parsed == parseOwsExceptionPayload(parseBody(reply.body))
              raised == C3_Raised(call, i)
          IN  ~reply.rejected =>
                 /\ raised.kind = "OwsExceptionError" <=>
                       (reply.status >= 400 \/ Len(parsed) > 0)
                 /\ raised.kind = "OwsExceptionError" =>
                       /\ raised.context =
                             [operation |-> request.operation,
                              version |-> request.version, url |-> request.url,
                              method |-> request.method, status |-> reply.status]
                       /\ raised.rawPayload = parseBody(reply.body)
                       /\ Len(raised.exceptions) > 0
                       /\ Len(parsed) > 0 => raised.exceptions = parsed
                       /\ Len(parsed) = 0 =>
                             /\ Len(raised.exceptions) = 1
                             /\ raised.exceptions[1].exceptionCode =
                                   SomeString(<<"HTTP_ERROR">>)
                 /\ (reply.body.name = "fcJsonNote" /\ reply.status < 400) =>
                       raised.kind = "pending"

\* A call that failed on a 404 without a report, carrying the synthesized
\* entry.
C3_Witness ==
    \E c \in DOMAIN calls :
       /\ calls[c].pc = "done" /\ calls[c].outcome.kind = "OwsExceptionError"
       /\ calls[c].outcome.context.status = 404
       /\ calls[c].outcome.exceptions[1].exceptionCode = SomeString(<<"HTTP_ERROR">>)
       /\ calls[c].method = "transaction"

-----------------------------------------------------------------------------
(* Namespace prefixes: clients with and without a mapping for the prefixes  *)
(* the calls use, on both request styles, with and without negotiation.     *)

NamespaceTables ==
    { EmptyMap, ( <<"topp">> :> "" ),
      ( <<"topp">> :> "http://www.openplans.org/topp" @@ <<"app">> :> "urn:app" ) }

NamespaceConfigs ==
    { WfsClientConfig(strategy, namespaces, NoGeoServerConfig, EmptyMap) :
          strategy \in Strategies, namespaces \in NamespaceTables }

NamespaceMethods ==
    {"getCapabilities", "describeFeatureType", "getFeature", "getFeatureWithLock",
     "getPropertyValue", "transaction", "lockFeature"}

\* (type names, property names, filter property) of the calls
NamespaceQueries ==
    { << << <<"roads">> >>, <<>>, <<>> >>,
      << << <<"topp", ":", "roads">> >>, <<>>, <<>> >>,
      << << <<"gml", ":", "roads">>, <<"roads">> >>, <<>>, <<>> >>,
      << << <<"roads">> >>, << <<"name">>, <<"app", ":", "name">> >>, <<>> >>,
      << << <<"roads">> >>, <<>>, <<"topp", ":", "name">> >> }

NamespaceOptions ==
    { [DefaultOptions EXCEPT !.requestStyle = requestStyle, !.typeNames = query[1],
                             !.propertyNames = query[2],
                             !.filterProperty = query[3]] :
          requestStyle \in {Undefined, "POST"}, query \in NamespaceQueries }

NamespaceProbeReplies == { Response(200, Named("caps11")), Response(503, Named("empty")) }

NamespaceReplies ==
    { Response(200, Named("fcJson")), Response(200, Named("excInvalidParameter")) }

InitNamespace ==
    /\ config \in NamespaceConfigs
    /\ negotiatedVersion = Undefined
    /\ capabilities = NoCapabilities
    /\ calls = [c \in Slots |-> IdleCall]

NextNamespace ==
    \/ \E c \in Slots, method \in NamespaceMethods, options \in NamespaceOptions :
          Invoke(c, method, options)
    \/ \E c \in Slots, reply \in NamespaceProbeReplies : ProbeReply(c, reply)
    \/ \E c \in Slots, reply \in NamespaceReplies : OpReply(c, reply)
    \/ \E c \in Slots, reply \in NamespaceReplies : RetryReply(c, reply)

SpecNamespace == InitNamespace /\ [][NextNamespace]_vars

\* The prefix of a name: the atoms in front of its ":" (<<>> if it has none).
C4_PrefixOf(name) ==
    IF includes(name, ":") THEN SubSeq(name, 1, IndexOfFrom(name, ":", 1) - 1) ELSE <<>>

\* The prefixes used by the call's type names, property names and filter
\* property that are neither reserved nor given a URI by the client's table.
C4_Unmapped(call) ==
    LET operation == OperationOf[InnerMethod(call)]
        names == call.options.typeNames
                 \o (IF operation \in {"GetFeature", "GetFeatureWithLock", "Transaction"}
                     THEN call.options.propertyNames ELSE <<>>)
                 \o (IF operation \in {"GetFeature", "GetFeatureWithLock", "Transaction",
                                       "GetPropertyValue", "LockFeature"}
                     THEN <<call.options.filterProperty>> ELSE <<>>)
                 \o (IF operation = "GetPropertyValue"
                     THEN <<call.options.valueReference>> ELSE <<>>)
        used == IF operation \in {"GetFeature", "GetFeatureWithLock", "Transaction",
                                  "GetPropertyValue", "LockFeature",
                                  "DescribeFeatureType"}
                THEN {C4_PrefixOf(names[i]) : i \in 1..Len(names)} \ {<<>>}
                ELSE {}
    IN  {prefix \in used :
            /\ prefix \notin RESERVED_PREFIXES
            /\ \/ prefix \notin DOMAIN config.namespaces
               \/ config.namespaces[prefix] = ""}

C4_Style(call) ==
    Coalesce(call.options.requestStyle, DefaultRequestStyle(InnerMethod(call)))

C4_Body(c, styles, NoRequest(_)) ==
    LET call == calls[c]
    IN  call.pc \in {"awaiting", "retrying", "done"} =>
           /\ (C4_Style(call) \in styles /\ C4_Unmapped(call) # {}) =>
                 /\ call.pc = "done"
                 /\ call.outcome.kind = "Error"
                 /\ call.outcome.prefix \in C4_Unmapped(call)
                 /\ NoRequest(call)
           /\ call.outcome.kind = "Error" => C4_Unmapped(call) # {}

-----------------------------------------------------------------------------
(* getPropertyValue: clients fixed at 1.1.0 and at 2.0.0, value references  *)
(* of every form, and feature collections of up to MaxFeatures features.    *)

MaxFeatures == 2

FeatureLists == UNION { [1..n -> PropertiesNames] : n \in 0..MaxFeatures }

ValueReferences ==
    { <<"name">>, <<"topp", ":", "name">>, <<"address", "/", "street">>,
      <<"app", ":", "address", ".", "app", ":", "city">>, <<"kind", "/">> }

ValueConfigs ==
    { WfsClientConfig(strategy, RoadsNamespaces, NoGeoServerConfig, EmptyMap) :
          strategy \in {"1.1.0", "2.0.0"} }

ValueOptions ==
    { [DefaultOptions EXCEPT !.version = version, !.requestStyle = requestStyle,
                             !.valueReference = valueReference] :
          version \in {Undefined, "1.1.0"}, requestStyle \in {Undefined, "POST"},
          valueReference \in ValueReferences }

ValueReplies ==
    { Response(200, Features("featuresJson", members)) : members \in FeatureLists }
    \cup { Response(200, Named(name)) :
              name \in {"fcXml", "jsonArray", "valuesXml", "excInvalidParameter"} }

InitValue ==
    /\ config \in ValueConfigs
    /\ negotiatedVersion = Undefined
    /\ capabilities = NoCapabilities
    /\ calls = [c \in Slots |-> IdleCall]

NextValue ==
    \/ \E c \in Slots, options \in ValueOptions : Invoke(c, "getPropertyValue", options)
    \/ \E c \in Slots, reply \in ValueReplies : OpReply(c, reply)
    \/ \E c \in Slots, reply \in ValueReplies : RetryReply(c, reply)

SpecValue == InitValue /\ [][NextValue]_vars

\* The value of a reference in a properties object: the exact key, then the
\* local name of the reference, then the traversal of its path.
C9_Resolved(properties, valueReference) ==
    IF ~IsObjectLike(properties) THEN JUndefined
    ELSE IF Get(properties, valueReference).t # "undefined"
    THEN Get(properties, valueReference)
    ELSE IF Get(properties, localName(valueReference)).t # "undefined"
    THEN Get(properties, localName(valueReference))
    ELSE FirstDefinedPath(properties, valueReferencePaths(valueReference))

\* values lists, in feature order, the resolved value of every feature whose
\* properties resolve the reference to something.
C9_Projection(values, features, valueReference) ==
    LET resolved == [i \in 1..Len(features) |->
                        C9_Resolved(Get(features[i], "properties"), valueReference)]
        kept == {i \in 1..Len(features) : resolved[i].t # "undefined"}
    IN  /\ Len(values) = Cardinality(kept)
        /\ \A i \in kept : values[Cardinality({j \in kept : j <= i})] = resolved[i]

\* C9: a getPropertyValue call whose version resolved to 1.1.0 sends no
\* GetPropertyValue request: it sends the GetFeature request of its type names
\* (and filter) at 1.1.0 and returns, in feature order, the value of the
\* reference in each feature's properties, leaving out the features in which
\* the reference resolves to nothing; the reference is resolved by exact key,
\* then by local name, then by path traversal over "/" or ".".
C9_PropertyValueByGetFeature ==
    \A c \in DOMAIN calls :
       LET call == calls[c]
           requests == OperationRequests(call)
           features == parseFeatureResponse(Last(call.replies).body)
       IN  (call.method = "getPropertyValue" /\ call.version = "1.1.0") =>
              /\ \A i \in 1..Len(call.reqs) :
                    /\ call.reqs[i].operation = "GetFeature"
                    /\ call.reqs[i].version = "1.1.0"
                    /\ call.reqs[i].params.def =>
                          /\ call.reqs[i].params.kvp["request"] = "GetFeature"
                          /\ call.reqs[i].params.kvp["typeName"] =
                                JoinComma(call.options.typeNames)
                    /\ call.reqs[i].data.def =>
                          /\ call.reqs[i].data.doc.root = "GetFeature"
                          /\ call.reqs[i].data.doc.query.typeNames =
                                call.options.typeNames
              /\ call.pc \in {"awaiting", "retrying", "done"} => Len(requests) >= 1
              /\ (call.pc = "done" /\ call.outcome.kind = "returned") =>
                    C9_Projection(call.outcome.values, features,
                                  call.options.valueReference)

\* A 1.1.0 getPropertyValue call that got two features, resolved the reference
\* by its path in the first and to nothing in the second, and returned the one
\* value.
C9_Witness ==
    \E c \in DOMAIN calls :
       /\ calls[c].method = "getPropertyValue" /\ calls[c].version = "1.1.0"
       /\ calls[c].pc = "done" /\ calls[c].outcome.kind = "returned"
       /\ calls[c].options.valueReference = <<"address", "/", "street">>
       /\ Last(calls[c].replies).body.members = <<"nested", "plain">>
       /\ calls[c].outcome.values = << JStr(<<"Pine", "St">>) >>

-----------------------------------------------------------------------------
(* GeoServer vendor inputs: clients with and without geoserver.enabled, and *)
(* calls with and without per-call GeoServer options.                       *)

VendorConfigs ==
    { WfsClientConfig("2.0.0", RoadsNamespaces, geoserver, EmptyMap) :
          geoserver \in { NoGeoServerConfig,
                          [enabled |-> FALSE,
                           defaultVendorParams |-> ( "strict" :> "true" )],
                          [enabled |-> TRUE,
                           defaultVendorParams |-> ( "strict" :> "true" )] } }

VendorMethods == {"describeFeatureType", "getFeature", "getFeatureWithLock",
                  "getPropertyValue"}

VendorOptions ==
    { [DefaultOptions EXCEPT !.version = version, !.requestStyle = requestStyle,
                             !.geoserver = geoserver] :
          version \in {Undefined, "1.1.0"},
          requestStyle \in {Undefined, "GET", "POST"},
          geoserver \in { NoGeoServer,
                          GeoServerOptions("POP > 10", Undefined, Undefined, EmptyMap),
                          GeoServerOptions(Undefined, "year:2024", "callback:f",
                                           ( "env" :> "color:red" )) } }

\* The query parameters that carry GeoServer vendor inputs.
VendorKeys == {"cql_filter", "viewParams", "format_options", "env", "strict"}

VendorReplies ==
    { Response(200, Named(name)) : name \in {"fcJson", "excInvalidParameter"} }

InitVendor ==
    /\ config \in VendorConfigs
    /\ negotiatedVersion = Undefined
    /\ capabilities = NoCapabilities
    /\ calls = [c \in Slots |-> IdleCall]

NextVendor ==
    \/ \E c \in Slots, method \in VendorMethods, options \in VendorOptions :
          Invoke(c, method, options)
    \/ \E c \in Slots, reply \in VendorReplies : OpReply(c, reply)
    \/ \E c \in Slots, reply \in VendorReplies : RetryReply(c, reply)

SpecVendor == InitVendor /\ [][NextVendor]_vars

\* C10: a request carries GeoServer vendor inputs (cql_filter, viewParams,
\* format_options, further vendor parameters) in its query parameters only if
\* the client's configuration has geoserver.enabled; a client without it
\* never sends them.
C10_VendorParamsOnlyWhenEnabled ==
    \A c \in DOMAIN calls :
       \A i \in 1..Len(calls[c].reqs) :
          (calls[c].reqs[i].params.def
             /\ (DOMAIN calls[c].reqs[i].params.kvp) \cap VendorKeys # {})
          => config.geoserver.enabled

-----------------------------------------------------------------------------
(* utils/xml.ts and the request documents of serializers/xml.ts as text.    *)
(* A document is the sequence of its tags and character data, in document   *)
(* order.  Element names are atom sequences, so that "one name starts with  *)
(* another" is a prefix of sequences: wfs:GetFeatureWithLock is             *)
(* <<"wfs", ":", "GetFeature", "WithLock">>.  An attribute list is the      *)
(* sequence of <<name, value>> pairs in the order they are written.         *)

OpenTag(name, attrs) == [k |-> "open", name |-> name, attrs |-> attrs]

CloseTag(name) == [k |-> "close", name |-> name, attrs |-> <<>>]

\* <name attrs/>
EmptyTag(name, attrs) == [k |-> "empty", name |-> name, attrs |-> attrs]

\* character data; the empty string leaves nothing in the document
TextNode(value) ==
    IF value = <<>> THEN <<>> ELSE << [k |-> "text", name |-> value, attrs |-> <<>>] >>

QName(prefix, local) == <<prefix, ":", local>>

\* <name>value</name>
Element(name, attrs, content) ==
    << OpenTag(name, attrs) >> \o content \o << CloseTag(name) >>

RECURSIVE Flatten(_)
Flatten(seqs) == IF seqs = <<>> THEN <<>> ELSE Head(seqs) \o Flatten(Tail(seqs))

\* escapeXml on a string of atoms: the five markup characters become entities
EscapeOf ==
    "&" :> "&amp;" @@ "<" :> "&lt;" @@ ">" :> "&gt;" @@ "\"" :> "&quot;"
    @@ "'" :> "&apos;"

escapeXml(value) ==
    [i \in 1..Len(value) |->
        IF value[i] \in DOMAIN EscapeOf THEN EscapeOf[value[i]] ELSE value[i]]

\* xmlAttr(name, value): nothing for undefined, null and ""
xmlAttr(name, value) ==
    IF value = Undefined \/ value = "" THEN <<>> ELSE << <<name, value>> >>

IsPrefix(p, s) == Len(p) <= Len(s) /\ SubSeq(s, 1, Len(p)) = p

\* acc.indexOf("<" + target, from): the first tag from position from on whose
\* name starts with target (0: none)
RECURSIVE IndexOfStartTag(_, _, _)
IndexOfStartTag(xml, target, from) ==
    IF from > Len(xml) THEN 0
    ELSE IF xml[from].k \in {"open", "empty"} /\ IsPrefix(target, xml[from].name)
         THEN from
         ELSE IndexOfStartTag(xml, target, from + 1)

\* acc.indexOf("</" + target + ">", from)
RECURSIVE IndexOfCloseTag(_, _, _)
IndexOfCloseTag(xml, target, from) ==
    IF from > Len(xml) THEN 0
    ELSE IF xml[from].k = "close" /\ xml[from].name = target THEN from
    ELSE IndexOfCloseTag(xml, target, from + 1)

\* One step of the reduce in applyXmlOverrides.
applyXmlOverride(acc, override) ==
    LET openIndex == IndexOfStartTag(acc, override.target, 1)
        selfClosing == acc[openIndex].k = "empty"
        closeIndex == IF selfClosing THEN 0
                      ELSE IndexOfCloseTag(acc, override.target, openIndex + 1)
        segmentEnd == IF selfClosing THEN openIndex ELSE closeIndex
        position == Coalesce(override.position, "after")
    IN  IF openIndex = 0 THEN acc
        ELSE IF ~selfClosing /\ closeIndex = 0 THEN acc
        ELSE IF position = "before"
             THEN SubSeq(acc, 1, openIndex - 1) \o override.xml
                  \o SubSeq(acc, openIndex, Len(acc))
        ELSE IF position = "replace"
             THEN SubSeq(acc, 1, openIndex - 1) \o override.xml
                  \o SubSeq(acc, segmentEnd + 1, Len(acc))
        ELSE SubSeq(acc, 1, segmentEnd) \o override.xml
             \o SubSeq(acc, segmentEnd + 1, Len(acc))

RECURSIVE applyXmlOverrides(_, _)
applyXmlOverrides(xml, overrides) ==
    IF overrides = <<>> THEN xml
    ELSE applyXmlOverrides(applyXmlOverride(xml, Head(overrides)), Tail(overrides))

XmlOverride(target, position, xml) ==
    [target |-> target, position |-> position, xml |-> xml]

-----------------------------------------------------------------------------
(* serializers/gml.ts.  A position is a sequence of numbers; the text of a  *)
(* gml:pos or gml:posList is a string of atoms, one per number (its decimal *)
(* form) and one per separating space.                                      *)

\* Array.prototype.join
RECURSIVE Join(_, _)
Join(strings, separator) ==
    IF strings = <<>> THEN <<>>
    ELSE IF Len(strings) = 1 THEN strings[1]
    ELSE strings[1] \o separator \o Join(Tail(strings), separator)

\* String(number)
NumberToString(n) == << ToString(n) >>

Geometry(type, coordinates) == [type |-> type, coordinates |-> coordinates]

\* position.join(" ")
coords(position) ==
    Join([i \in 1..Len(position) |-> NumberToString(position[i])], <<" ">>)

\* positions.map((position) => position.join(" ")).join(" ")
coordList(positions) ==
    Join([i \in 1..Len(positions) |-> coords(positions[i])], <<" ">>)

Gml(local) == QName("gml", local)

polygonToGml(rings, srsAttr) ==
    LET outer == IF rings = <<>> THEN <<>> ELSE rings[1]
        inners == IF rings = <<>> THEN <<>> ELSE Tail(rings)
        ring(positions) ==
            Element(Gml("LinearRing"), <<>>,
                Element(Gml("posList"), <<>>, TextNode(coordList(positions))))
    IN  Element(Gml("Polygon"), srsAttr,
            Element(Gml("exterior"), <<>>, ring(outer))
            \o Flatten([i \in 1..Len(inners) |->
                           Element(Gml("interior"), <<>>, ring(inners[i]))]))

geometryToGml(geometry, options) ==
    LET srsAttr == xmlAttr("srsName", options.srsName)
        c == geometry.coordinates
    IN  CASE geometry.type = "Point" ->
                Element(Gml("Point"), srsAttr,
                    Element(Gml("pos"), <<>>, TextNode(coords(c))))
          [] geometry.type = "LineString" ->
                Element(Gml("LineString"), srsAttr,
                    Element(Gml("posList"), <<>>, TextNode(coordList(c))))
          [] geometry.type = "Polygon" -> polygonToGml(c, srsAttr)
          [] geometry.type = "MultiPoint" ->
                Element(Gml("MultiPoint"), srsAttr,
                    Flatten([i \in 1..Len(c) |->
                        Element(Gml("pointMember"), <<>>,
                            Element(Gml("Point"), <<>>,
                                Element(Gml("pos"), <<>>,
                                        TextNode(coords(c[i])))))]))
          [] geometry.type = "MultiLineString" ->
                Element(Gml("MultiLineString"), srsAttr,
                    Flatten([i \in 1..Len(c) |->
                        Element(Gml("lineStringMember"), <<>>,
                            Element(Gml("LineString"), <<>>,
                                Element(Gml("posList"), <<>>,
                                        TextNode(coordList(c[i])))))]))
          [] geometry.type = "MultiPolygon" ->
                Element(Gml("MultiPolygon"), srsAttr,
                    Flatten([i \in 1..Len(c) |->
                        Element(Gml("polygonMember"), <<>>,
                                polygonToGml(c[i], <<>>))]))
          [] OTHER -> <<>>

\* literalToXml for a string value ("" for null and undefined)
literalToXml(value) == TextNode(escapeXml(value))

qNameValueReference(value, version) ==
    LET prefix == IF version = "1.1.0" THEN "ogc" ELSE "fes"
        element == IF version = "1.1.0" THEN "PropertyName" ELSE "ValueReference"
    IN  Element(QName(prefix, element), <<>>, TextNode(escapeXml(value)))

-----------------------------------------------------------------------------
(* filters/compiler.ts, filters/types.ts *)

LogicalFilter(op, filters) == [op |-> op, filters |-> filters]

ComparisonFilter(op, property, value, matchCase) ==
    [op |-> op, property |-> property, value |-> value, matchCase |-> matchCase]

LikeFilter(property, value, wildCard, singleChar, escapeChar, matchCase) ==
    [op |-> "like", property |-> property, value |-> value, wildCard |-> wildCard,
     singleChar |-> singleChar, escapeChar |-> escapeChar, matchCase |-> matchCase]

BetweenFilter(property, lower, upper) ==
    [op |-> "between", property |-> property, lower |-> lower, upper |-> upper]

NullFilter(property) == [op |-> "isNull", property |-> property]

IdFilter(ids) == [op |-> "id", ids |-> ids]

SpatialFilter(op, property, geometry, srsName) ==
    [op |-> op, property |-> property, geometry |-> geometry, srsName |-> srsName]

COMPARISON_TAG_MAP ==
    "eq" :> "PropertyIsEqualTo" @@ "neq" :> "PropertyIsNotEqualTo"
    @@ "lt" :> "PropertyIsLessThan" @@ "lte" :> "PropertyIsLessThanOrEqualTo"
    @@ "gt" :> "PropertyIsGreaterThan" @@ "gte" :> "PropertyIsGreaterThanOrEqualTo"

SPATIAL_TAG_MAP ==
    "bbox" :> "BBOX" @@ "intersects" :> "Intersects" @@ "within" :> "Within"
    @@ "contains" :> "Contains" @@ "disjoint" :> "Disjoint" @@ "touches" :> "Touches"
    @@ "overlaps" :> "Overlaps" @@ "crosses" :> "Crosses"

\* The nesting depth at which the coordinates of a geometry hold positions:
\* there the first two members are numbers, above it the members are arrays.
PositionDepth ==
    "Point" :> 0 @@ "LineString" :> 1 @@ "MultiPoint" :> 1 @@ "Polygon" :> 2
    @@ "MultiLineString" :> 2 @@ "MultiPolygon" :> 3

\* collect of geometryBounds: an array of at least two numbers is pushed as a
\* position; any other array is walked, and its numbers are passed over.
RECURSIVE collect(_, _)
collect(array, depth) ==
    IF depth = 0
    THEN IF Len(array) >= 2 THEN <<array>> ELSE <<>>
    ELSE Flatten([i \in 1..Len(array) |-> collect(array[i], depth - 1)])

\* The switch of geometryBounds: the positions of the six geometry types.
PositionsOf(geometry) ==
    IF geometry.type \in DOMAIN PositionDepth
    THEN collect(geometry.coordinates, PositionDepth[geometry.type])
    ELSE <<>>

\* Number.POSITIVE_INFINITY and Number.NEGATIVE_INFINITY, and a finite number
PositiveInfinity == [finite |-> FALSE, sign |-> 1, n |-> 0]

NegativeInfinity == [finite |-> FALSE, sign |-> -1, n |-> 0]

Finite(n) == [finite |-> TRUE, sign |-> 0, n |-> n]

\* x < bound and x > bound for a finite x
LessThan(x, bound) == IF bound.finite THEN x < bound.n ELSE bound.sign > 0

GreaterThan(x, bound) == IF bound.finite THEN x > bound.n ELSE bound.sign < 0

\* The loop of geometryBounds over the positions from the i-th on.
RECURSIVE BoundsLoop(_, _, _)
BoundsLoop(positions, i, b) ==
    IF i > Len(positions) THEN b
    ELSE LET x == positions[i][1]
             y == positions[i][2]
         IN  BoundsLoop(positions, i + 1,
                [minX |-> IF LessThan(x, b.minX) THEN Finite(x) ELSE b.minX,
                 minY |-> IF LessThan(y, b.minY) THEN Finite(y) ELSE b.minY,
                 maxX |-> IF GreaterThan(x, b.maxX) THEN Finite(x) ELSE b.maxX,
                 maxY |-> IF GreaterThan(y, b.maxY) THEN Finite(y) ELSE b.maxY])

\* geometryBounds taking the first position for the whole geometry.
geometryBoundsOfFirst(geometry) ==
    LET positions == PositionsOf(geometry)
    IN  IF positions = <<>> THEN <<0, 0, 0, 0>>
        ELSE <<positions[1][1], positions[1][2], positions[1][1], positions[1][2]>>

geometryBounds(geometry) ==
    LET positions == PositionsOf(geometry)
        b == BoundsLoop(positions, 1,
                        [minX |-> PositiveInfinity, minY |-> PositiveInfinity,
                         maxX |-> NegativeInfinity, maxY |-> NegativeInfinity])
    IN  IF positions = <<>> THEN <<0, 0, 0, 0>>
        ELSE <<b.minX.n, b.minY.n, b.maxX.n, b.maxY.n>>

compileComparisonFilter(filter, version) ==
    LET prefix == IF version = "1.1.0" THEN "ogc" ELSE "fes"
        tag == COMPARISON_TAG_MAP[filter.op]
    IN  Element(QName(prefix, tag), xmlAttr("matchCase", filter.matchCase),
            qNameValueReference(filter.property, version)
            \o Element(QName(prefix, "Literal"), <<>>, literalToXml(filter.value)))

compileLikeFilter(filter, version) ==
    LET prefix == IF version = "1.1.0" THEN "ogc" ELSE "fes"
    IN  Element(QName(prefix, "PropertyIsLike"),
            xmlAttr("wildCard", Coalesce(filter.wildCard, "*"))
            \o xmlAttr("singleChar", Coalesce(filter.singleChar, "."))
            \o xmlAttr("escapeChar", Coalesce(filter.escapeChar, "!"))
            \o xmlAttr("matchCase", filter.matchCase),
            qNameValueReference(filter.property, version)
            \o Element(QName(prefix, "Literal"), <<>>,
                       TextNode(escapeXml(filter.value))))

compileBetweenFilter(filter, version) ==
    LET prefix == IF version = "1.1.0" THEN "ogc" ELSE "fes"
        boundary(tag, value) ==
            Element(QName(prefix, tag), <<>>,
                Element(QName(prefix, "Literal"), <<>>, literalToXml(value)))
    IN  Element(QName(prefix, "PropertyIsBetween"), <<>>,
            qNameValueReference(filter.property, version)
            \o boundary("LowerBoundary", filter.lower)
            \o boundary("UpperBoundary", filter.upper))

compileNullFilter(filter, version) ==
    LET prefix == IF version = "1.1.0" THEN "ogc" ELSE "fes"
    IN  Element(QName(prefix, "PropertyIsNull"), <<>>,
                qNameValueReference(filter.property, version))

\* compileIdFilter writing fes:ResourceId at every version.
compileIdFilterResourceOnly(filter, version) ==
    [i \in 1..Len(filter.ids) |->
        EmptyTag(QName("fes", "ResourceId"), << <<"rid", escapeXml(filter.ids[i])>> >>)]

compileIdFilter(filter, version) ==
    IF version = "1.1.0"
    THEN [i \in 1..Len(filter.ids) |->
             EmptyTag(QName("ogc", "FeatureId"), << <<"fid", escapeXml(filter.ids[i])>> >>)]
    ELSE [i \in 1..Len(filter.ids) |->
             EmptyTag(QName("fes", "ResourceId"), << <<"rid", escapeXml(filter.ids[i])>> >>)]

compileSpatialFilter(filter, options) ==
    LET prefix == IF options.version = "1.1.0" THEN "ogc" ELSE "fes"
        tag == SPATIAL_TAG_MAP[filter.op]
        srsName == Coalesce(filter.srsName, options.srsName)
        bbox == geometryBounds(filter.geometry)
    IN  IF filter.op = "bbox"
        THEN Element(QName(prefix, tag), <<>>,
                qNameValueReference(filter.property, options.version)
                \o Element(Gml("Envelope"), xmlAttr("srsName", srsName),
                      Element(Gml("lowerCorner"), <<>>,
                              TextNode(coords(<<bbox[1], bbox[2]>>)))
                      \o Element(Gml("upperCorner"), <<>>,
                                 TextNode(coords(<<bbox[3], bbox[4]>>)))))
        ELSE Element(QName(prefix, tag), <<>>,
                qNameValueReference(filter.property, options.version)
                \o geometryToGml(filter.geometry,
                                 [version |-> options.version, srsName |-> srsName]))

RECURSIVE compileFilterBody(_, _)
compileLogicalFilter(filter, options) ==
    LET prefix == IF options.version = "1.1.0" THEN "ogc" ELSE "fes"
        tag == IF filter.op = "and" THEN "And" ELSE "Or"
    IN  IF filter.op = "not"
        THEN IF filter.filters = <<>> THEN <<>>
             ELSE Element(QName(prefix, "Not"), <<>>,
                          compileFilterBody(filter.filters[1], options))
        ELSE Element(QName(prefix, tag), <<>>,
                Flatten([i \in 1..Len(filter.filters) |->
                            compileFilterBody(filter.filters[i], options)]))

compileFilterBody(filter, options) ==
    CASE filter.op \in {"and", "or", "not"} -> compileLogicalFilter(filter, options)
      [] filter.op \in DOMAIN COMPARISON_TAG_MAP ->
            compileComparisonFilter(filter, options.version)
      [] filter.op = "like" -> compileLikeFilter(filter, options.version)
      [] filter.op = "between" -> compileBetweenFilter(filter, options.version)
      [] filter.op = "isNull" -> compileNullFilter(filter, options.version)
      [] filter.op = "id" -> compileIdFilter(filter, options.version)
      [] filter.op \in DOMAIN SPATIAL_TAG_MAP -> compileSpatialFilter(filter, options)
      [] OTHER -> <<>>

filterNamespaceAttrs(version) ==
    IF version = "1.1.0"
    THEN << <<"xmlns:ogc", "http://www.opengis.net/ogc">>,
            <<"xmlns:gml", "http://www.opengis.net/gml">> >>
    ELSE << <<"xmlns:fes", "http://www.opengis.net/fes/2.0">>,
            <<"xmlns:gml", "http://www.opengis.net/gml/3.2">> >>

CompileFilterOptions(version, srsName, includeNamespaceDeclarations) ==
    [version |-> version, srsName |-> srsName,
     includeNamespaceDeclarations |-> includeNamespaceDeclarations]

compileFilterXml(filter, options) ==
    LET prefix == IF options.version = "1.1.0" THEN "ogc" ELSE "fes"
        nsAttrs == IF options.includeNamespaceDeclarations
                   THEN filterNamespaceAttrs(options.version) ELSE <<>>
    IN  Element(QName(prefix, "Filter"), nsAttrs, compileFilterBody(filter, options))

-----------------------------------------------------------------------------
(* serializers/xml.ts: the GetFeature and GetFeatureWithLock documents as   *)
(* text.  The optional root attributes startIndex, resultType, resolve,     *)
(* resolveDepth and resolveTimeout are written like outputFormat and are    *)
(* left undefined throughout.                                               *)

\* options.filter undefined
NoFilter == [op |-> Undefined]

\* options.bbox undefined
NoBbox == <<>>

\* The option fields the XML builders read beyond DefaultOptions.
XmlOptions(filter, bbox, srsName, xmlHints, xmlOverrides, expiry, lockAction) ==
    [filter |-> filter, bbox |-> bbox, srsName |-> srsName, xmlHints |-> xmlHints,
     xmlOverrides |-> xmlOverrides, expiry |-> expiry, lockAction |-> lockAction]

DefaultXmlOptions ==
    DefaultOptions
    @@ XmlOptions(NoFilter, NoBbox, Undefined, <<>>, <<>>, Undefined, Undefined)

ROOT_PREFIX_ORDER == << <<"wfs">>, <<"gml">>, <<"fes">>, <<"ogc">>, <<"ows">>, <<"xlink">> >>

\* rootXmlns: the declarations of ROOT_PREFIX_ORDER in that order, then the
\* others sorted by prefix (carried as one table, which fixes their order).
rootXmlns(namespaces) ==
    LET listed == {ROOT_PREFIX_ORDER[i] : i \in 1..Len(ROOT_PREFIX_ORDER)}
        extras == [p \in (DOMAIN namespaces) \ listed |-> namespaces[p]]
    IN  Flatten([i \in 1..Len(ROOT_PREFIX_ORDER) |->
                    IF ROOT_PREFIX_ORDER[i] \in DOMAIN namespaces
                    THEN << << "xmlns", [prefix |-> ROOT_PREFIX_ORDER[i],
                                         uri |-> namespaces[ROOT_PREFIX_ORDER[i]]] >> >>
                    ELSE <<>>])
        \o (IF DOMAIN extras = {} THEN <<>> ELSE << <<"xmlns", extras>> >>)

\* typeNames.join(" ")
joinTypeNamesForXml(typeNames) == [sep |-> " ", items |-> typeNames]

RECURSIVE collectFilterTreePrefixes(_)
collectFilterTreePrefixes(filter) ==
    CASE filter.op = Undefined -> <<>>
      [] filter.op \in {"and", "or", "not"} ->
            Flatten([i \in 1..Len(filter.filters) |->
                        collectFilterTreePrefixes(filter.filters[i])])
      [] filter.op \in (DOMAIN COMPARISON_TAG_MAP) \cup (DOMAIN SPATIAL_TAG_MAP)
                       \cup {"like", "between", "isNull"} ->
            collectQNamePrefixes(filter.property)
      [] OTHER -> <<>>

buildFilterSegment(options, version) ==
    LET filterPrefix == IF version = "1.1.0" THEN "ogc" ELSE "fes"
        propNameTag == IF version = "1.1.0" THEN "PropertyName" ELSE "ValueReference"
        bbox == options.bbox
    IN  IF options.filter.op # Undefined
        THEN compileFilterXml(options.filter,
                              CompileFilterOptions(version, Undefined, FALSE))
        ELSE IF options.bbox # NoBbox
        THEN Element(QName(filterPrefix, "Filter"), <<>>,
                Element(QName(filterPrefix, "BBOX"), <<>>,
                    Element(QName(filterPrefix, propNameTag), <<>>,
                            TextNode(<<"geometry">>))
                    \o Element(Gml("Envelope"), <<>>,
                          Element(Gml("lowerCorner"), <<>>,
                                  TextNode(coords(<<bbox[1], bbox[2]>>)))
                          \o Element(Gml("upperCorner"), <<>>,
                                     TextNode(coords(<<bbox[3], bbox[4]>>))))))
        ELSE <<>>

\* buildGeoServerHints: hints.join("")
buildGeoServerHints(hints) == Flatten(hints)

\* The thrown Error, or the returned string.
Thrown(prefix) == [ok |-> FALSE, prefix |-> prefix, xml |-> <<>>]

Built(xml) == [ok |-> TRUE, prefix |-> <<>>, xml |-> xml]

WfsGetFeature == QName("wfs", "GetFeature")

WfsGetFeatureWithLock == WfsGetFeature \o <<"WithLock">>

buildGetFeatureXml(options, ctx) ==
    LET requiredPrefixes == collectTypeNamePrefixes(options.typeNames)
                            \o collectTypeNamePrefixes(options.propertyNames)
                            \o collectFilterTreePrefixes(options.filter)
        ns == resolveRootNamespaces(ctx, requiredPrefixes)
        queryAttributeName == IF ctx.version = "1.1.0" THEN "typeName" ELSE "typeNames"
        projectionXml ==
            Flatten([i \in 1..Len(options.propertyNames) |->
                Element(QName("wfs", "PropertyName"), <<>>,
                        TextNode(escapeXml(options.propertyNames[i])))])
        filterXml == buildFilterSegment(options, ctx.version)
        query == Element(QName("wfs", "Query"),
                    << <<queryAttributeName, joinTypeNamesForXml(options.typeNames)>> >>
                    \o xmlAttr("srsName", options.srsName),
                    projectionXml \o filterXml)
        countAttr == IF ctx.version = "1.1.0"
                     THEN xmlAttr("maxFeatures", options.count)
                     ELSE xmlAttr("count", options.count)
        xml == Element(WfsGetFeature,
                  rootXmlns(ns.namespaces)
                  \o << <<"service", "WFS">>, <<"version", ctx.version>> >>
                  \o xmlAttr("outputFormat", options.outputFormat)
                  \o countAttr,
                  query \o buildGeoServerHints(options.xmlHints))
    IN  IF ~ns.ok THEN Thrown(ns.prefix)
        ELSE Built(applyXmlOverrides(xml, options.xmlOverrides))

\* String.prototype.replace with a string pattern: the first occurrence only.
ReplaceFirstStartTag(xml, from, to) ==
    LET i == IndexOfStartTag(xml, from, 1)
    IN  IF i = 0 THEN xml
        ELSE [xml EXCEPT ![i].name = to \o SubSeq(@, Len(from) + 1, Len(@))]

ReplaceFirstCloseTag(xml, from, to) ==
    LET i == IndexOfCloseTag(xml, from, 1)
    IN  IF i = 0 THEN xml ELSE [xml EXCEPT ![i].name = to]

\* replace(/^<wfs:GetFeatureWithLock([^>]*)>/, "<wfs:GetFeatureWithLock$1" +
\* attrs + ">"): only a document that begins with that tag is changed.
AppendRootAttrs(xml, attrs) ==
    IF /\ xml # <<>>
       /\ xml[1].k \in {"open", "empty"}
       /\ IsPrefix(WfsGetFeatureWithLock, xml[1].name)
    THEN [xml EXCEPT ![1] =
            IF @.k = "open" THEN [@ EXCEPT !.attrs = @ \o attrs]
            ELSE OpenTag(@.name, @.attrs \o << <<"/", "">> >> \o attrs)]
    ELSE xml

buildGetFeatureWithLockXml(options, ctx) ==
    LET base == buildGetFeatureXml(options, ctx)
        baseGetFeatureXml ==
            ReplaceFirstCloseTag(
                ReplaceFirstStartTag(base.xml, WfsGetFeature, WfsGetFeatureWithLock),
                WfsGetFeature, WfsGetFeatureWithLock)
        lockAttr == xmlAttr("expiry", options.expiry)
                    \o xmlAttr("lockAction", options.lockAction)
        updated == AppendRootAttrs(baseGetFeatureXml, lockAttr)
    IN  IF ~base.ok THEN base
        ELSE Built(applyXmlOverrides(updated, options.xmlOverrides))

-----------------------------------------------------------------------------
(* A call of an exported function: its name, its arguments and, once it has *)
(* returned, its result.                                                    *)

FunctionCall(fn, args) ==
    [pc |-> "called", fn |-> fn, args |-> args, result |-> Undefined]

Return(c, fn, result) ==
    /\ calls[c].pc = "called"
    /\ calls[c].fn = fn
    /\ calls' = [calls EXCEPT ![c] = [@ EXCEPT !.pc = "returned", !.result = result]]
    /\ UNCHANGED <<config, negotiatedVersion, capabilities>>

HasReturned(c, fn) == calls[c].pc = "returned" /\ calls[c].fn = fn

-----------------------------------------------------------------------------
(* buildGetFeatureXml and buildGetFeatureWithLockXml on the same options.   *)

LockVersions == {"1.1.0", "2.0.0", "2.0.2"}

LockHint == << EmptyTag(<<"hint">>, <<>>) >>

LockOverrideLists ==
    { <<>>,
      << XmlOverride(QName("wfs", "Query"), Undefined, LockHint) >>,
      << XmlOverride(QName("wfs", "PropertyName"), "before",
                     Element(QName("wfs", "PropertyName"), <<>>, TextNode(<<"id">>))) >>,
      << XmlOverride(WfsGetFeature, "before", LockHint) >>,
      << XmlOverride(QName("wfs", "Query"), "replace",
                     Element(QName("wfs", "StoredQuery"), <<>>, <<>>)) >> }

LockOptions ==
    { [DefaultXmlOptions EXCEPT !.typeNames = << <<"topp", ":", "roads">> >>,
                                !.propertyNames = propertyNames,
                                !.filter = filter, !.count = count,
                                !.xmlHints = xmlHints, !.xmlOverrides = xmlOverrides,
                                !.expiry = expiry, !.lockAction = lockAction] :
          propertyNames \in {<<>>, << <<"name">> >>},
          filter \in {NoFilter, ComparisonFilter("eq", <<"name">>, <<"A1">>, Undefined)},
          count \in {Undefined, "10"},
          xmlHints \in {<<>>, <<LockHint>>},
          xmlOverrides \in LockOverrideLists,
          expiry \in {Undefined, "5"},
          lockAction \in {Undefined, "ALL"} }

LockBuilders == {"buildGetFeatureXml", "buildGetFeatureWithLockXml"}

InitLock ==
    /\ config = WfsClientConfig("auto", RoadsNamespaces, NoGeoServerConfig, EmptyMap)
    /\ negotiatedVersion = Undefined
    /\ capabilities = NoCapabilities
    /\ calls \in [Slots -> { FunctionCall(fn, [options |-> options, version |-> version]) :
                               fn \in LockBuilders, options \in LockOptions,
                               version \in LockVersions }]

BuildGetFeatureXml(c) ==
    Return(c, "buildGetFeatureXml",
           buildGetFeatureXml(calls[c].args.options,
                              createSerializerContext(config, calls[c].args.version)))

BuildGetFeatureWithLockXml(c) ==
    Return(c, "buildGetFeatureWithLockXml",
           buildGetFeatureWithLockXml(calls[c].args.options,
                                      createSerializerContext(config, calls[c].args.version)))

NextLock ==
    \/ \E c \in Slots : BuildGetFeatureXml(c)
    \/ \E c \in Slots : BuildGetFeatureWithLockXml(c)

SpecLock == InitLock /\ [][NextLock]_vars

\* The GetFeature document with its root element renamed to
\* wfs:GetFeatureWithLock and the lock attributes added to the root.
C11_LockDocumentOf(xml, options) ==
    LET open == CHOOSE i \in 1..Len(xml) :
                    /\ xml[i].k = "open" /\ xml[i].name = WfsGetFeature
                    /\ \A j \in 1..(i - 1) :
                          ~(xml[j].k = "open" /\ xml[j].name = WfsGetFeature)
        close == CHOOSE i \in 1..Len(xml) :
                    /\ xml[i].k = "close" /\ xml[i].name = WfsGetFeature
                    /\ \A j \in (i + 1)..Len(xml) :
                          ~(xml[j].k = "close" /\ xml[j].name = WfsGetFeature)
    IN  [i \in 1..Len(xml) |->
            IF i = open
            THEN OpenTag(WfsGetFeatureWithLock,
                         xml[i].attrs \o xmlAttr("expiry", options.expiry)
                         \o xmlAttr("lockAction", options.lockAction))
            ELSE IF i = close THEN CloseTag(WfsGetFeatureWithLock)
            ELSE xml[i]]

\* C11: for every options value and version, the document of
\* buildGetFeatureWithLockXml is the document of buildGetFeatureXml for the
\* same options with the root element renamed and the expiry and lockAction
\* attributes added to the root; everything else, the wfs:Query included, is
\* the same.
C11_LockSharesGetFeatureDocument ==
    \A c \in Slots :
        HasReturned(c, "buildGetFeatureWithLockXml") =>
            LET plain == buildGetFeatureXml(calls[c].args.options,
                             createSerializerContext(config, calls[c].args.version))
            IN  /\ calls[c].result.ok = plain.ok
                /\ plain.ok =>
                      calls[c].result.xml = C11_LockDocumentOf(plain.xml, calls[c].args.options)

\* Without raw XML overrides the two documents do agree in that way.
C11_WithoutOverrides ==
    \A c \in Slots :
        HasReturned(c, "buildGetFeatureWithLockXml")
        /\ calls[c].args.options.xmlOverrides = <<>> =>
            calls[c].result.xml =
                C11_LockDocumentOf(
                    buildGetFeatureXml(calls[c].args.options,
                        createSerializerContext(config, calls[c].args.version)).xml,
                    calls[c].args.options)

-----------------------------------------------------------------------------
(* The XML request builders on their own: every operation, with names that  *)
(* use mapped, unmapped, emptily mapped and reserved prefixes.              *)

BuilderTables ==
    { EmptyMap, ( <<"topp">> :> "" ),
      ( <<"topp">> :> "http://www.openplans.org/topp" @@ <<"app">> :> "urn:app" ),
      ( <<"gml">> :> "" @@ <<"topp">> :> "http://www.openplans.org/topp" ) }

\* (type names, property names, filter property, value reference)
BuilderQueries ==
    { << << <<"roads">> >>, <<>>, <<>>, <<"name">> >>,
      << << <<"topp", ":", "roads">> >>, <<>>, <<>>, <<"name">> >>,
      << << <<"gml", ":", "roads">>, <<"roads">> >>, << <<"xml", ":", "lang">> >>,
         <<"xlink", ":", "href">>, <<"xmlns", ":", "name">> >>,
      << << <<"roads">> >>, << <<"name">>, <<"app", ":", "name">> >>, <<>>, <<"name">> >>,
      << << <<"roads">> >>, <<>>, <<"topp", ":", "name">>, <<"name">> >>,
      << << <<"roads">> >>, <<>>, <<>>, <<"topp", ":", "name">> >>,
      << << <<"gml", ":", "roads">>, <<"topp", ":", "roads">> >>, <<>>, <<>>, <<"name">> >>,
      << << <<"topp", ":", "roads">> >>, << <<"app", ":", "name">> >>,
         <<"topp", ":", "a", "/", "app", ":", "b">>, <<"name">> >> }

BuilderOptions ==
    { [DefaultOptions EXCEPT !.typeNames = query[1], !.propertyNames = query[2],
                             !.filterProperty = query[3], !.valueReference = query[4]] :
          query \in BuilderQueries }

BuilderVersions == {"1.1.0", "2.0.0"}

InitBuilder ==
    /\ config \in { WfsClientConfig("auto", namespaces, NoGeoServerConfig, EmptyMap) :
                       namespaces \in BuilderTables }
    /\ negotiatedVersion = Undefined
    /\ capabilities = NoCapabilities
    /\ calls \in [Slots -> { FunctionCall(operation,
                                          [options |-> options, version |-> version]) :
                               operation \in WfsOperation, options \in BuilderOptions,
                               version \in BuilderVersions }]

\* build<Operation>Xml(options, createSerializerContext(version))
BuildXml(c, operation) ==
    Return(c, operation,
           XmlFor(operation, calls[c].args.options,
                  createSerializerContext(config, calls[c].args.version)))

NextBuilder == \E c \in Slots, operation \in WfsOperation : BuildXml(c, operation)

SpecBuilder == InitBuilder /\ [][NextBuilder]_vars

\* The names an operation's request carries: its type names, its property
\* names (the value reference of GetPropertyValue among them) and its filter
\* property reference.
C12_NamesOf(operation, options) ==
    CASE operation \in {"GetFeature", "GetFeatureWithLock", "Transaction"} ->
            options.typeNames \o options.propertyNames \o <<options.filterProperty>>
      [] operation = "GetPropertyValue" ->
            options.typeNames \o <<options.valueReference, options.filterProperty>>
      [] operation = "LockFeature" -> options.typeNames \o <<options.filterProperty>>
      [] operation = "DescribeFeatureType" -> options.typeNames
      [] OTHER -> <<>>

\* The prefixes of a name: every atom directly in front of a ":".
C12_PrefixesOf(name) ==
    { <<name[i]>> : i \in {j \in 1..(Len(name) - 1) : name[j + 1] = ":"} }

C12_Referenced(call) ==
    UNION { C12_PrefixesOf(C12_NamesOf(call.fn, call.args.options)[i]) :
               i \in 1..Len(C12_NamesOf(call.fn, call.args.options)) }

C12_HasUri(prefix) ==
    prefix \in DOMAIN config.namespaces /\ config.namespaces[prefix] # ""

-----------------------------------------------------------------------------
(* buildGetFeatureKvp and buildGetFeatureXml at every version, with and     *)
(* without a feature limit, raw parameters and vendor parameters.           *)

KvpTypeNames ==
    { << <<"roads">> >>, << <<"topp", ":", "roads">>, <<"topp", ":", "bridges">> >> }

KvpRaw == { EmptyMap, ( "foo" :> "bar" ), ( "count" :> "9" ) }

KvpGeoServer ==
    { NoGeoServer,
      GeoServerOptions(Undefined, Undefined, Undefined, ( "typeNames" :> "other" )) }

KvpOptions ==
    { [DefaultXmlOptions EXCEPT !.typeNames = typeNames, !.count = count,
                                !.outputFormat = outputFormat,
                                !.rawKvp = rawKvp, !.geoserver = geoserver] :
          typeNames \in KvpTypeNames, count \in {Undefined, "0", "5"},
          outputFormat \in {Undefined, "application/json"},
          rawKvp \in KvpRaw, geoserver \in KvpGeoServer }

InitKvp ==
    /\ config = WfsClientConfig("auto", RoadsNamespaces, NoGeoServerConfig, EmptyMap)
    /\ negotiatedVersion = Undefined
    /\ capabilities = NoCapabilities
    /\ calls \in [Slots -> { FunctionCall(fn, [options |-> options, version |-> version]) :
                               fn \in {"buildGetFeatureKvp", "buildGetFeatureXml"},
                               options \in KvpOptions, version \in WfsVersion }]

BuildGetFeatureKvp(c) ==
    Return(c, "buildGetFeatureKvp",
           buildGetFeatureKvp(calls[c].args.options, calls[c].args.version))

NextKvp ==
    \/ \E c \in Slots : BuildGetFeatureKvp(c)
    \/ \E c \in Slots : BuildGetFeatureXml(c)

SpecKvp == InitKvp /\ [][NextKvp]_vars

\* The names of the attributes of a tag.
C13_AttrNames(tag) == { tag.attrs[i][1] : i \in 1..Len(tag.attrs) }

C13_Attr(tag, name) ==
    tag.attrs[CHOOSE i \in 1..Len(tag.attrs) : tag.attrs[i][1] = name][2]

\* The parameters the caller supplies under a name of its own choosing.
C13_Supplied(options) ==
    (DOMAIN options.rawKvp) \cup (DOMAIN options.geoserver.vendorParams)

C13_TypeKey(version) == IF version = "1.1.0" THEN "typeName" ELSE "typeNames"

C13_LimitKey(version) == IF version = "1.1.0" THEN "maxFeatures" ELSE "count"

C13_OtherKeys(version) ==
    {"typeName", "typeNames", "maxFeatures", "count"}
    \ {C13_TypeKey(version), C13_LimitKey(version)}

-----------------------------------------------------------------------------
(* compileFilterXml on filters of every variant, at every version, with and *)
(* without a default reference system and namespace declarations.           *)

FilterPoint == Geometry("Point", <<1, 2>>)

FilterSquare == Geometry("Polygon", << << <<0, 0>>, <<0, 2>>, <<2, 2>>, <<0, 0>> >> >>)

FilterLeaves ==
    { ComparisonFilter("eq", <<"name">>, <<"Main">>, Undefined),
      ComparisonFilter("gte", <<"topp", ":", "lanes">>, <<"2">>, "false"),
      LikeFilter(<<"name">>, <<"Ma", "*">>, Undefined, "?", Undefined, Undefined),
      BetweenFilter(<<"lanes">>, <<"1">>, <<"4">>),
      NullFilter(<<"name">>),
      IdFilter(<<>>),
      IdFilter(<< <<"roads", ".", "1">>, <<"roads", ".", "2">> >>),
      SpatialFilter("bbox", <<"geom">>, FilterSquare, Undefined),
      SpatialFilter("intersects", <<"geom">>, FilterPoint, "EPSG:3857"),
      [op |-> "custom"] }

Filters ==
    FilterLeaves
    \cup { LogicalFilter("and", <<a, b>>) :
              a \in {ComparisonFilter("eq", <<"name">>, <<"Main">>, Undefined)},
              b \in FilterLeaves }
    \cup { LogicalFilter("not", <<a>>) : a \in FilterLeaves }
    \cup { LogicalFilter("not", <<>>), LogicalFilter("or", <<>>) }

InitFilter ==
    /\ config = WfsClientConfig("auto", EmptyMap, NoGeoServerConfig, EmptyMap)
    /\ negotiatedVersion = Undefined
    /\ capabilities = NoCapabilities
    /\ calls \in [Slots ->
          { FunctionCall("compileFilterXml",
                [filter |-> filter,
                 options |-> CompileFilterOptions(version, srsName, declare)]) :
              filter \in Filters, version \in WfsVersion,
              srsName \in {Undefined, "EPSG:4326"}, declare \in BOOLEAN }]

CompileFilterXml(c) ==
    Return(c, "compileFilterXml",
           compileFilterXml(calls[c].args.filter, calls[c].args.options))

NextFilter == \E c \in Slots : CompileFilterXml(c)

SpecFilter == InitFilter /\ [][NextFilter]_vars

C14_Prefix(version) == IF version = "1.1.0" THEN "ogc" ELSE "fes"

C14_Tags(xml) == { i \in 1..Len(xml) : xml[i].k \in {"open", "close", "empty"} }

\* C14: the dialect of compileFilterXml follows from the version alone: at
\* 1.1.0 every filter element (every element that is not a gml geometry
\* element) is ogc-prefixed and an id filter is a list of ogc:FeatureId
\* elements with fid; at 2.0.0 and 2.0.2 every filter element is fes-prefixed,
\* an id filter is a list of fes:ResourceId elements with rid, and the two
\* versions give the same document; the documents of the two dialects always
\* differ.
C14_DialectByVersion ==
    \A c \in Slots :
        HasReturned(c, "compileFilterXml") =>
            LET filter == calls[c].args.filter
                options == calls[c].args.options
                xml == calls[c].result
                prefix == C14_Prefix(options.version)
                at(version) == compileFilterXml(filter, [options EXCEPT !.version = version])
            IN  /\ \A i \in C14_Tags(xml) : xml[i].name[1] \in {prefix, "gml"}
                /\ xml[1].name = QName(prefix, "Filter")
                /\ \A i \in C14_Tags(xml) :
                      xml[i].name[3] \in {"FeatureId", "ResourceId"} =>
                         /\ xml[i].k = "empty"
                         /\ xml[i].name = IF options.version = "1.1.0"
                                          THEN QName("ogc", "FeatureId")
                                          ELSE QName("fes", "ResourceId")
                         /\ Len(xml[i].attrs) = 1
                         /\ xml[i].attrs[1][1] =
                               IF options.version = "1.1.0" THEN "fid" ELSE "rid"
                /\ filter.op = "id" =>
                      /\ Len(xml) = Len(filter.ids) + 2
                      /\ \A i \in 1..Len(filter.ids) :
                            xml[i + 1].attrs[1][2] = escapeXml(filter.ids[i])
                /\ options.version # "1.1.0" =>
                      /\ xml = at("2.0.0") /\ xml = at("2.0.2")
                      /\ xml # at("1.1.0")
                /\ options.version = "1.1.0" =>
                      /\ xml # at("2.0.0") /\ xml # at("2.0.2")

\* The filter "name = Main and id in (roads.1, roads.2)" compiled at 1.1.0
\* with two ogc:FeatureId elements.
C14_Witness ==
    \E c \in Slots :
        /\ HasReturned(c, "compileFilterXml")
        /\ calls[c].args.options.version = "1.1.0"
        /\ calls[c].args.filter.op = "and"
        /\ \E i, j \in 1..Len(calls[c].result) :
              /\ i < j
              /\ calls[c].result[i] =
                    EmptyTag(QName("ogc", "FeatureId"), << <<"fid", <<"roads", ".", "1">> >> >>)
              /\ calls[c].result[j] =
                    EmptyTag(QName("ogc", "FeatureId"), << <<"fid", <<"roads", ".", "2">> >> >>)

-----------------------------------------------------------------------------
(* parsers/helpers.ts: the tree XMLParser makes of a document, and the      *)
(* lookups on it.  A tree value is a string (t = "text", v its atoms), an   *)
(* object (t = "node", v its entries <<key, value>> in key order) or an     *)
(* array (t = "array", v its items).  An element without attributes and     *)
(* without child elements is its text; repeated sibling elements become one *)
(* array under their name; attributes are entries with the key prefix "@_". *)

TreeText(v) == [t |-> "text", v |-> v]

TreeNode(entries) == [t |-> "node", v |-> entries]

TreeArray(items) == [t |-> "array", v |-> items]

\* undefined as a tree value
NoValue == [t |-> "undefined", v |-> <<>>]

AttrKey(name) == <<"@_", name>>

\* The atoms of an attribute value written as one string.
AttributeAtoms ==
    "EPSG:4326" :> <<"EPSG", ":", "4326">>
    @@ "urn:ogc:def:crs:EPSG::4326" :>
          <<"urn", ":", "ogc", ":", "def", ":", "crs", ":", "EPSG", ":", ":", "4326">>
    @@ "EPSG:43260" :> <<"EPSG", ":", "4326", "0">>
    @@ "EPSG:3857" :> <<"EPSG", ":", "3857">>

AtomsOf(value) == IF value \in DOMAIN AttributeAtoms THEN AttributeAtoms[value] ELSE <<value>>

ElementValue(attrs, entries, text) ==
    LET attrEntries == [i \in 1..Len(attrs) |->
                           << AttrKey(attrs[i][1]), TreeText(AtomsOf(attrs[i][2])) >>]
    IN  IF entries # <<>> THEN TreeNode(attrEntries \o entries)
        ELSE IF attrs = <<>> THEN TreeText(text)
        ELSE IF text = <<>> THEN TreeNode(attrEntries)
        ELSE TreeNode(attrEntries \o << << <<"#text">>, TreeText(text) >> >>)

AddEntry(entries, key, value) ==
    IF \E j \in 1..Len(entries) : entries[j][1] = key
    THEN LET j == CHOOSE k \in 1..Len(entries) : entries[k][1] = key
         IN  [entries EXCEPT ![j] =
                << key, IF @[2].t = "array" THEN TreeArray(Append(@[2].v, value))
                        ELSE TreeArray(<< @[2], value >>) >>]
    ELSE Append(entries, <<key, value>>)

\* The children from position i up to the closing tag of their parent.
RECURSIVE ParseFrom(_, _, _, _)
ParseFrom(xml, i, entries, text) ==
    IF i > Len(xml) \/ xml[i].k = "close"
    THEN [entries |-> entries, text |-> text, next |-> i]
    ELSE IF xml[i].k = "text"
    THEN ParseFrom(xml, i + 1, entries, text \o xml[i].name)
    ELSE IF xml[i].k = "empty"
    THEN ParseFrom(xml, i + 1,
                   AddEntry(entries, xml[i].name,
                            ElementValue(xml[i].attrs, <<>>, <<>>)), text)
    ELSE LET inner == ParseFrom(xml, i + 1, <<>>, <<>>)
         IN  ParseFrom(xml, inner.next + 1,
                       AddEntry(entries, xml[i].name,
                                ElementValue(xml[i].attrs, inner.entries, inner.text)),
                       text)

parseXml(xml) == TreeNode(ParseFrom(xml, 1, <<>>, <<>>).entries)

\* Object.entries(value): an array's entries are its items under index keys
EntriesOf(value) ==
    IF value.t = "node" THEN value.v
    ELSE IF value.t = "array"
    THEN [i \in 1..Len(value.v) |-> << <<ToString(i - 1)>>, value.v[i] >>]
    ELSE <<>>

\* value && typeof value === "object"
IsObject(value) == value.t \in {"node", "array"}

\* asArray
asArray(value) ==
    IF value.t = "undefined" THEN <<>>
    ELSE IF value.t = "array" THEN value.v ELSE <<value>>

\* record[key] of an object
Field(value, key) ==
    LET entries == EntriesOf(value)
    IN  IF \E j \in 1..Len(entries) : entries[j][1] = key
        THEN entries[CHOOSE j \in 1..Len(entries) : entries[j][1] = key][2]
        ELSE NoValue

RECURSIVE valueText(_)
valueText(node) ==
    IF node.t = "undefined" THEN NoValue
    ELSE IF node.t = "text" THEN node
    ELSE IF Field(node, <<"#text">>).t # "undefined" THEN Field(node, <<"#text">>)
    ELSE LET entries == EntriesOf(node)
             found == {j \in 1..Len(entries) :
                          /\ entries[j][1][1] # "@_"
                          /\ valueText(entries[j][2]).t # "undefined"}
         IN  IF found = {} THEN NoValue
             ELSE valueText(entries[CHOOSE j \in found : \A k \in found : j <= k][2])

RECURSIVE collectNodesByLocalName(_, _)
collectNodesByLocalName(root, expected) ==
    LET entries == EntriesOf(root)
    IN  Flatten([j \in 1..Len(entries) |->
            (IF localName(entries[j][1]) = <<expected>>
             THEN SelectSeq(asArray(entries[j][2]), IsObject) ELSE <<>>)
            \o (IF IsObject(entries[j][2])
                THEN collectNodesByLocalName(entries[j][2], expected) ELSE <<>>)])

\* Number(v) of the decimal form of a coordinate
MaxCoordinate == 4

StringToNumber(v) == CHOOSE n \in 0..MaxCoordinate : ToString(n) = v

\* text.trim().split(/[\s,]+/).filter(Boolean).map(Number)
parseNumbers(text) ==
    LET words == SelectSeq(text, LAMBDA a : a \notin {" ", ","})
    IN  [i \in 1..Len(words) |-> StringToNumber(words[i])]

\* maybeSwap swapping under forceLonLat whatever the reference system.
maybeSwapAlways(coordinates, strategy, srsName) ==
    IF Len(coordinates) < 2 \/ strategy # "forceLonLat" THEN coordinates
    ELSE << coordinates[2], coordinates[1] >> \o SubSeq(coordinates, 3, Len(coordinates))

maybeSwap(coordinates, strategy, srsName) ==
    LET is4326 == includes(toLowerCase(srsName), "4326")
        swapped == << coordinates[2], coordinates[1] >>
                   \o SubSeq(coordinates, 3, Len(coordinates))
    IN  IF Len(coordinates) < 2 \/ strategy = "preserve" THEN coordinates
        ELSE IF strategy = "forceLonLat"
             THEN IF ~is4326 THEN coordinates ELSE swapped
        ELSE IF strategy = "forceLatLon"
             THEN IF is4326 THEN coordinates ELSE swapped
        ELSE coordinates

-----------------------------------------------------------------------------
(* parsers/featureCollection.ts: GML geometries to GeoJSON *)

\* a geometry function returning undefined
NoGeometry == Geometry(Undefined, <<>>)

\* srsName ?? ""
SrsText(srsName) == IF srsName.t = "text" THEN srsName.v ELSE <<>>

extractNodeTextByLocalName(value, nodeName) ==
    LET entries == EntriesOf(value)
        found == {j \in 1..Len(entries) :
                     /\ localName(entries[j][1]) = <<nodeName>>
                     /\ valueText(entries[j][2]).t # "undefined"}
    IN  IF found = {} THEN NoValue
        ELSE valueText(entries[CHOOSE j \in found : \A k \in found : j <= k][2])

RECURSIVE PathFrom(_, _)
PathFrom(current, path) ==
    IF path = <<>>
    THEN IF IsObject(current) THEN valueText(current) ELSE current
    ELSE IF ~IsObject(current) THEN NoValue
    ELSE LET entries == EntriesOf(current)
             found == {j \in 1..Len(entries) : localName(entries[j][1]) = <<Head(path)>>}
             next == entries[CHOOSE j \in found : \A k \in found : j <= k][2]
         IN  IF found = {} THEN NoValue
             ELSE PathFrom(IF next.t = "array" THEN next.v[1] ELSE next, Tail(path))

extractNodeByPath(value, path) == PathFrom(value, path)

\* a ?? b on tree values
Otherwise(a, b) == IF a.t = "undefined" THEN b ELSE a

\* !text
NoText(text) == text.t = "undefined" \/ text.v = <<>>

inferDimension(value) ==
    LET dim == Field(value, AttrKey("srsDimension"))
    IN  IF ~IsObject(value) \/ dim.t # "text" THEN 2
        ELSE IF StringToNumber(dim.v[1]) > 2 THEN StringToNumber(dim.v[1]) ELSE 2

RECURSIVE toPositions(_, _)
toPositions(numbers, dimension) ==
    IF numbers = <<>> THEN <<>>
    ELSE IF Len(numbers) <= dimension
    THEN IF Len(numbers) >= 2 THEN <<numbers>> ELSE <<>>
    ELSE << SubSeq(numbers, 1, dimension) >>
         \o toPositions(SubSeq(numbers, dimension + 1, Len(numbers)), dimension)

SwapAll(positions, strategy, srsName) ==
    [i \in 1..Len(positions) |-> maybeSwap(positions[i], strategy, SrsText(srsName))]

parsePoint(value, strategy, srsName) ==
    LET text == Otherwise(extractNodeTextByLocalName(value, "pos"),
                          extractNodeTextByLocalName(value, "coordinates"))
        numbers == parseNumbers(text.v)
    IN  IF NoText(text) \/ Len(numbers) < 2 THEN NoGeometry
        ELSE Geometry("Point", maybeSwap(numbers, strategy, SrsText(srsName)))

parseLineString(value, strategy, srsName) ==
    LET text == Otherwise(extractNodeTextByLocalName(value, "posList"),
                   Otherwise(extractNodeTextByLocalName(value, "coordinates"),
                             extractNodeTextByLocalName(value, "pos")))
        positions == SwapAll(toPositions(parseNumbers(text.v), inferDimension(value)),
                             strategy, srsName)
    IN  IF NoText(text) THEN NoGeometry
        ELSE IF Len(positions) = 1
             THEN Geometry("LineString", <<positions[1], positions[1]>>)
        ELSE Geometry("LineString", positions)

parsePolygon(value, strategy, srsName) ==
    LET ring(text) == SwapAll(toPositions(parseNumbers(text.v), inferDimension(value)),
                              strategy, srsName)
        exterior ==
            Otherwise(extractNodeByPath(value, <<"exterior", "LinearRing", "posList">>),
                      extractNodeByPath(value, <<"outerBoundaryIs", "LinearRing",
                                                 "coordinates">>))
        interiorNodes == asArray(extractNodeByPath(value, <<"interior">>))
                         \o asArray(extractNodeByPath(value, <<"innerBoundaryIs">>))
        interiorText(interior) ==
            Otherwise(extractNodeByPath(interior, <<"LinearRing", "posList">>),
                      extractNodeByPath(interior, <<"LinearRing", "coordinates">>))
        rings == (IF NoText(exterior) THEN <<>> ELSE << ring(exterior) >>)
                 \o Flatten([i \in 1..Len(interiorNodes) |->
                       IF NoText(interiorText(interiorNodes[i])) THEN <<>>
                       ELSE << ring(interiorText(interiorNodes[i])) >>])
    IN  IF ~IsObject(value) \/ rings = <<>> THEN NoGeometry
        ELSE Geometry("Polygon", rings)

\* nodes.map(parse).filter((g) => !!g).map((g) => g.coordinates)
PartsOf(parsed) ==
    LET kept == SelectSeq(parsed, LAMBDA g : g.type # Undefined)
    IN  [i \in 1..Len(kept) |-> kept[i].coordinates]

parseMultiPoint(value, strategy, srsName) ==
    LET nodes == collectNodesByLocalName(value, "Point")
        points == PartsOf([i \in 1..Len(nodes) |-> parsePoint(nodes[i], strategy, srsName)])
    IN  IF points = <<>> THEN NoGeometry ELSE Geometry("MultiPoint", points)

parseMultiLineString(value, strategy, srsName) ==
    LET nodes == collectNodesByLocalName(value, "LineString")
                 \o collectNodesByLocalName(value, "Curve")
        lines == PartsOf([i \in 1..Len(nodes) |->
                             parseLineString(nodes[i], strategy, srsName)])
    IN  IF lines = <<>> THEN NoGeometry ELSE Geometry("MultiLineString", lines)

parseMultiPolygon(value, strategy, srsName) ==
    LET nodes == collectNodesByLocalName(value, "Polygon")
                 \o collectNodesByLocalName(value, "Surface")
        polygons == PartsOf([i \in 1..Len(nodes) |->
                                parsePolygon(nodes[i], strategy, srsName)])
    IN  IF polygons = <<>> THEN NoGeometry ELSE Geometry("MultiPolygon", polygons)

parseGeometryNode(nodeName, value, strategy, srsName) ==
    LET rawNodeSrsName == Field(value, AttrKey("srsName"))
        nodeSrsName == IF rawNodeSrsName.t = "text" THEN rawNodeSrsName ELSE srsName
    IN  CASE nodeName = <<"Point">> -> parsePoint(value, strategy, nodeSrsName)
          [] nodeName \in {<<"LineString">>, <<"Curve">>} ->
                parseLineString(value, strategy, nodeSrsName)
          [] nodeName \in {<<"Polygon">>, <<"Surface">>} ->
                parsePolygon(value, strategy, nodeSrsName)
          [] nodeName = <<"MultiPoint">> -> parseMultiPoint(value, strategy, nodeSrsName)
          [] nodeName \in {<<"MultiLineString">>, <<"MultiCurve">>} ->
                parseMultiLineString(value, strategy, nodeSrsName)
          [] nodeName \in {<<"MultiPolygon">>, <<"MultiSurface">>} ->
                parseMultiPolygon(value, strategy, nodeSrsName)
          [] OTHER -> NoGeometry

\* The two loops over the entries of the record: the first entry that is a
\* geometry node, else the first entry that holds one further down.
RECURSIVE parseGeometryDeep(_, _, _)
parseGeometryDeep(value, strategy, inheritedSrsName) ==
    LET entries == EntriesOf(value)
        srsName == Otherwise(Field(value, AttrKey("srsName")), inheritedSrsName)
        direct == [j \in 1..Len(entries) |->
                      IF entries[j][1][1] = "@_" THEN NoGeometry
                      ELSE parseGeometryNode(localName(entries[j][1]), entries[j][2],
                                             strategy, srsName)]
        nested == [j \in 1..Len(entries) |->
                      parseGeometryDeep(entries[j][2], strategy, srsName)]
        found == SelectSeq(direct \o nested, LAMBDA g : g.type # Undefined)
    IN  IF ~IsObject(value) \/ found = <<>> THEN NoGeometry ELSE found[1]

-----------------------------------------------------------------------------
(* A geometry written by geometryToGml and read back by the feature parser, *)
(* under every axis-order strategy and with several reference systems.      *)

RingA == << <<0, 0>>, <<0, 4>>, <<4, 4>>, <<0, 0>> >>

RingB == << <<1, 1>>, <<1, 2>>, <<2, 2>>, <<1, 1>> >>

RingC == << <<2, 3>>, <<3, 3>>, <<3, 2>>, <<2, 3>> >>

Geometries ==
    { Geometry("Point", <<1, 2>>), Geometry("Point", <<1, 2, 3>>),
      Geometry("LineString", << <<1, 2>>, <<3, 4>> >>),
      Geometry("LineString", << <<1, 2>>, <<3, 4>>, <<0, 1>> >>),
      Geometry("LineString", << <<1, 2, 3>>, <<3, 4, 0>> >>),
      Geometry("Polygon", <<RingA>>),
      Geometry("Polygon", <<RingA, RingB>>),
      Geometry("Polygon", <<RingA, RingB, RingC>>),
      Geometry("MultiPoint", << <<1, 2>> >>),
      Geometry("MultiPoint", << <<1, 2>>, <<3, 4>> >>),
      Geometry("MultiLineString", << << <<1, 2>>, <<3, 4>> >> >>),
      Geometry("MultiLineString", << << <<1, 2>>, <<3, 4>> >>, << <<0, 1>>, <<2, 2>> >> >>),
      Geometry("MultiPolygon", << <<RingA>> >>),
      Geometry("MultiPolygon", << <<RingB>>, <<RingC>> >>),
      Geometry("MultiPolygon", << <<RingA, RingB>> >>) }

AxisOrderStrategy == {"preserve", "forceLonLat", "forceLatLon"}

SrsNames == {Undefined} \cup DOMAIN AttributeAtoms

InitGeometry ==
    /\ config = WfsClientConfig("auto", EmptyMap, NoGeoServerConfig, EmptyMap)
    /\ negotiatedVersion = Undefined
    /\ capabilities = NoCapabilities
    /\ calls \in [Slots ->
          { FunctionCall("geometryToGml",
                [geometry |-> geometry, strategy |-> strategy,
                 options |-> [version |-> version, srsName |-> srsName]]) :
              geometry \in Geometries, strategy \in AxisOrderStrategy,
              version \in {"1.1.0", "2.0.0"}, srsName \in SrsNames }]

GeometryToGml(c) ==
    Return(c, "geometryToGml",
           geometryToGml(calls[c].args.geometry, calls[c].args.options))

\* The fragment is parsed as XML and handed to a geometry parser.
ParseWith(c, parser(_, _, _)) ==
    /\ HasReturned(c, "geometryToGml")
    /\ calls' = [calls EXCEPT ![c] =
          [pc |-> "returned", fn |-> "parseGeometryDeep",
           args |-> [gml |-> calls[c].result, strategy |-> calls[c].args.strategy,
                     encoded |-> calls[c].args],
           result |-> parser(parseXml(calls[c].result), calls[c].args.strategy,
                             NoValue)]]
    /\ UNCHANGED <<config, negotiatedVersion, capabilities>>

\* The fragment as the value of a feature's geometry property
\* (parseMemberToFeature).
ParseGeometryDeep(c) == ParseWith(c, parseGeometryDeep)

NextGeometry ==
    \/ \E c \in Slots : GeometryToGml(c)
    \/ \E c \in Slots : ParseGeometryDeep(c)

SpecGeometry == InitGeometry /\ [][NextGeometry]_vars

\* C15: for every geometry g of the six types, reading geometryToGml(g) back
\* under the strategy preserve gives g: the same type and the same rings and
\* positions in the same order.
C15_RoundTrip ==
    \A c \in Slots :
        HasReturned(c, "parseGeometryDeep") /\ calls[c].args.strategy = "preserve" =>
            calls[c].result = calls[c].args.encoded.geometry

C15_Planar(geometry) ==
    LET c == geometry.coordinates
        flat(rings) == \A i \in 1..Len(rings) : \A j \in 1..Len(rings[i]) :
                          Len(rings[i][j]) = 2
    IN  CASE geometry.type = "Point" -> TRUE
          [] geometry.type = "MultiPoint" -> TRUE
          [] geometry.type = "LineString" -> flat(<<c>>)
          [] geometry.type \in {"Polygon", "MultiLineString"} -> flat(c)
          [] geometry.type = "MultiPolygon" -> \A i \in 1..Len(c) : flat(c[i])

C15_WithoutHoles(geometry) ==
    CASE geometry.type = "Polygon" -> Len(geometry.coordinates) = 1
      [] geometry.type = "MultiPolygon" ->
            \A i \in 1..Len(geometry.coordinates) : Len(geometry.coordinates[i]) = 1
      [] OTHER -> TRUE

\* The round trip does hold for geometries whose lines and rings are
\* two-dimensional and whose polygons have no interior ring.
C15_RoundTripPlanarWithoutHoles ==
    \A c \in Slots :
        /\ HasReturned(c, "parseGeometryDeep") /\ calls[c].args.strategy = "preserve"
        /\ C15_Planar(calls[c].args.encoded.geometry)
        /\ C15_WithoutHoles(calls[c].args.encoded.geometry)
        => calls[c].result = calls[c].args.encoded.geometry

\* A polygon with an interior ring comes back without it.
C15_HoleLost ==
    \E c \in Slots :
        /\ HasReturned(c, "parseGeometryDeep") /\ calls[c].args.strategy = "preserve"
        /\ calls[c].args.encoded.geometry = Geometry("Polygon", <<RingA, RingB>>)
        /\ calls[c].result = Geometry("Polygon", <<RingA>>)

\* A three-dimensional line comes back as two-dimensional positions.
C15_DimensionLost ==
    \E c \in Slots :
        /\ HasReturned(c, "parseGeometryDeep") /\ calls[c].args.strategy = "preserve"
        /\ calls[c].args.encoded.geometry =
              Geometry("LineString", << <<1, 2, 3>>, <<3, 4, 0>> >>)
        /\ calls[c].result = Geometry("LineString", << <<1, 2>>, <<3, 3>>, <<4, 0>> >>)

\* A position with its first two coordinates exchanged.
C16_Swapped(position) ==
    [i \in 1..Len(position) |->
        IF i = 1 THEN position[2] ELSE IF i = 2 THEN position[1] ELSE position[i]]

C16_SwappedAll(positions) == [i \in 1..Len(positions) |-> C16_Swapped(positions[i])]

C16_SwappedGeometry(geometry) ==
    LET c == geometry.coordinates
    IN  CASE geometry.type = "Point" -> Geometry("Point", C16_Swapped(c))
          [] geometry.type \in {"LineString", "MultiPoint"} ->
                Geometry(geometry.type, C16_SwappedAll(c))
          [] geometry.type \in {"Polygon", "MultiLineString"} ->
                Geometry(geometry.type, [i \in 1..Len(c) |-> C16_SwappedAll(c[i])])
          [] geometry.type = "MultiPolygon" ->
                Geometry(geometry.type,
                    [i \in 1..Len(c) |->
                        [j \in 1..Len(c[i]) |-> C16_SwappedAll(c[i][j])]])
          [] OTHER -> geometry

\* The reference system name written on the geometry contains "4326".
C16_Is4326(srsName) ==
    srsName # Undefined /\ \E i \in 1..Len(AttributeAtoms[srsName]) :
                               AttributeAtoms[srsName][i] = "4326"

-----------------------------------------------------------------------------
(* applyXmlOverrides on the documents the builders write: a self-closing    *)
(* root, a GetFeature document with two queries, and a 2.0 Transaction with *)
(* an update property (serializeUpdateProperty).                            *)

Wfs(local) == QName("wfs", local)

OverrideDocuments ==
    { << EmptyTag(Wfs("ListStoredQueries"), << <<"service", "WFS">> >>) >>,
      Element(WfsGetFeature, << <<"service", "WFS">> >>,
          Element(Wfs("Query"), << <<"typeNames", "roads">> >>,
              Element(Wfs("PropertyName"), <<>>, TextNode(<<"name">>)))
          \o Element(Wfs("Query"), << <<"typeNames", "rivers">> >>, <<>>)),
      Element(Wfs("Transaction"), << <<"service", "WFS">> >>,
          Element(Wfs("Update"), << <<"typeName", "roads">> >>,
              Element(Wfs("Property"), <<>>,
                  Element(QName("wfs", "Value") \o <<"Reference">>, <<>>,
                          TextNode(<<"name">>))
                  \o Element(Wfs("Value"), <<>>, TextNode(<<"5">>))))) }

OverrideTargets ==
    { Wfs("ListStoredQueries"), Wfs("Query"), Wfs("PropertyName"), Wfs("Value"),
      Wfs("Missing") }

OverrideXml == << EmptyTag(<<"extra">>, <<>>) >>

Overrides ==
    { XmlOverride(target, position, OverrideXml) :
          target \in OverrideTargets,
          position \in {Undefined, "before", "after", "replace"} }

OverrideLists ==
    { <<>> } \cup { <<a>> : a \in Overrides } \cup { <<a, b>> : a, b \in Overrides }

InitOverride ==
    /\ config = WfsClientConfig("auto", EmptyMap, NoGeoServerConfig, EmptyMap)
    /\ negotiatedVersion = Undefined
    /\ capabilities = NoCapabilities
    /\ calls \in [Slots ->
          { FunctionCall("applyXmlOverrides", [xml |-> xml, overrides |-> overrides]) :
              xml \in OverrideDocuments, overrides \in OverrideLists }]

ApplyXmlOverrides(c) ==
    Return(c, "applyXmlOverrides",
           applyXmlOverrides(calls[c].args.xml, calls[c].args.overrides))

NextOverride == \E c \in Slots : ApplyXmlOverrides(c)

SpecOverride == InitOverride /\ [][NextOverride]_vars

\* The splice as stated: the span starts at the first opening or
\* self-closing tag named target and, unless that tag is self-closing, ends
\* at the next closing tag named target.
C17_SpliceOne(xml, override) ==
    LET opens == {i \in 1..Len(xml) :
                     xml[i].k \in {"open", "empty"} /\ xml[i].name = override.target}
        first == CHOOSE i \in opens : \A j \in opens : i <= j
        closes == {i \in (first + 1)..Len(xml) :
                      xml[i].k = "close" /\ xml[i].name = override.target}
        last == IF xml[first].k = "empty" THEN first
                ELSE CHOOSE i \in closes : \A j \in closes : i <= j
        position == IF override.position = Undefined THEN "after" ELSE override.position
    IN  IF opens = {} THEN xml
        ELSE IF xml[first].k = "open" /\ closes = {} THEN xml
        ELSE CASE position = "before" ->
                    SubSeq(xml, 1, first - 1) \o override.xml
                    \o SubSeq(xml, first, Len(xml))
               [] position = "replace" ->
                    SubSeq(xml, 1, first - 1) \o override.xml
                    \o SubSeq(xml, last + 1, Len(xml))
               [] OTHER ->
                    SubSeq(xml, 1, last) \o override.xml
                    \o SubSeq(xml, last + 1, Len(xml))

RECURSIVE C17_Splice(_, _)
C17_Splice(xml, overrides) ==
    IF overrides = <<>> THEN xml
    ELSE C17_Splice(C17_SpliceOne(xml, Head(overrides)), Tail(overrides))

\* C17: applyXmlOverrides applies the overrides in list order, each around
\* the span of the first element named by its target (the single tag if it
\* is self-closing, else the opening tag through the closing tag): before and
\* after insert the override XML next to the span, replace puts it in the
\* span's place, the rest of the document is unchanged, and a target that
\* does not occur changes nothing.
C17_SpliceAtTarget ==
    \A c \in Slots :
        HasReturned(c, "applyXmlOverrides") =>
            calls[c].result = C17_Splice(calls[c].args.xml, calls[c].args.overrides)

\* No element of the document has a name that starts with the target and
\* goes on.
C17_NoLongerName(xml, overrides) ==
    \A i \in 1..Len(xml), j \in 1..Len(overrides) :
        IsPrefix(overrides[j].target, xml[i].name) => xml[i].name = overrides[j].target

\* On documents without such an element the splice is as stated.
C17_SpliceWithoutLongerNames ==
    \A c \in Slots :
        HasReturned(c, "applyXmlOverrides")
        /\ C17_NoLongerName(calls[c].args.xml, calls[c].args.overrides) =>
            calls[c].result = C17_Splice(calls[c].args.xml, calls[c].args.overrides)

\* replace on a self-closing root gives exactly the override XML.
C17_ReplacedRoot ==
    \E c \in Slots :
        /\ HasReturned(c, "applyXmlOverrides")
        /\ calls[c].args.overrides =
              << XmlOverride(Wfs("ListStoredQueries"), "replace", OverrideXml) >>
        /\ calls[c].result = OverrideXml

\* replace on wfs:Value of the update property also removes the
\* wfs:ValueReference element in front of it.
C17_ValueReferenceReplaced ==
    \E c \in Slots :
        /\ HasReturned(c, "applyXmlOverrides")
        /\ calls[c].args.overrides = << XmlOverride(Wfs("Value"), "replace", OverrideXml) >>
        /\ calls[c].result =
              Element(Wfs("Transaction"), << <<"service", "WFS">> >>,
                  Element(Wfs("Update"), << <<"typeName", "roads">> >>,
                      Element(Wfs("Property"), <<>>, OverrideXml)))

-----------------------------------------------------------------------------
(* parseFeatureCollection and WfsClient.parseFeatureResponse with the whole *)
(* result object: value is the object returned, xml tells whether parseXml  *)
(* was called on the way.                                                   *)

emptyFeatureCollection == FeatureCollectionJson(<<>>)

Parsed(value, xml) == [value |-> value, xml |-> xml]

parseFeatureCollectionObject(payload) ==
    IF isGeoJsonFeatureCollection(payload) THEN Parsed(payload.json, FALSE)
    ELSE IF ~payload.str THEN Parsed(emptyFeatureCollection, FALSE)
    ELSE IF payload.tree.root \notin FeatureCollectionRoots
         THEN Parsed(emptyFeatureCollection, TRUE)
    ELSE Parsed(FeatureCollectionJson(payload.tree.members), TRUE)

\* A TransportResponse: data is what parseBody made of the text, rawData the
\* text itself.
TransportResponse(data, rawData) == [data |-> data, rawData |-> rawData]

parseFeatureResponseObject(response) ==
    LET parsed == parseFeatureCollectionObject(response.data)
        xmlFallback == parseFeatureCollectionObject(response.rawData)
    IN  IF Len(Get(parsed.value, "features").a) > 0 THEN parsed
        ELSE Parsed(xmlFallback.value, parsed.xml \/ xmlFallback.xml)

\* The response of a server that sent the JSON value: JSON text holds no
\* element.
JsonResponse(value) ==
    TransportResponse([str |-> FALSE, json |-> value, tree |-> NoTree],
                      StringPayload(NoTree))

XmlResponse(tree) == TransportResponse(StringPayload(tree), StringPayload(tree))

\* What a features array may hold: features, and values that are none.
FeatureItems ==
    { Feature(PlainProperties), Feature(NoteProperties), Feature(JNull), JNull,
      JStr(<<"not", "a", "feature">>) }

FeatureArrays ==
    { <<>> } \cup { <<a>> : a \in FeatureItems }
             \cup { <<a, b>> : a, b \in FeatureItems }

\* A GeoJSON collection, bare or with the timeStamp member servers add.
GeoJsonCollections ==
    { FeatureCollectionJson(features) : features \in FeatureArrays }
    \cup { JObj("type" :> JStr(<<"FeatureCollection">>) @@
                "features" :> JArr(features) @@
                "timeStamp" :> JStr(<<"2024-01-01T00", ":", "00", ":", "00Z">>)) : features \in FeatureArrays }

FeatureResponses ==
    { JsonResponse(value) : value \in GeoJsonCollections }
    \cup { JsonResponse(BodyTable["jsonOk"].json),
           XmlResponse(BodyTable["fcXml"].tree),
           XmlResponse(BodyTable["okXml"].tree) }

InitFeatureResponse ==
    /\ config = WfsClientConfig("auto", EmptyMap, NoGeoServerConfig, EmptyMap)
    /\ negotiatedVersion = Undefined
    /\ capabilities = NoCapabilities
    /\ calls \in [Slots ->
          { FunctionCall(fn, response) :
              fn \in {"parseFeatureCollection", "parseFeatureResponse"},
              response \in FeatureResponses }]

ParseFeatureCollection(c) ==
    Return(c, "parseFeatureCollection", parseFeatureCollectionObject(calls[c].args.data))

ParseFeatureResponse(c) ==
    Return(c, "parseFeatureResponse", parseFeatureResponseObject(calls[c].args))

NextFeatureResponse ==
    \E c \in Slots : ParseFeatureCollection(c) \/ ParseFeatureResponse(c)

SpecFeatureResponse == InitFeatureResponse /\ [][NextFeatureResponse]_vars

C18_IsGeoJson(response) == isGeoJsonFeatureCollection(response.data)

\* C18: when the payload is a GeoJSON FeatureCollection object, feature
\* response parsing returns that object unchanged and does not parse XML,
\* whatever the features array holds.
C18_GeoJsonPassThrough ==
    \A c \in Slots :
        HasReturned(c, "parseFeatureResponse") /\ C18_IsGeoJson(calls[c].args) =>
            /\ calls[c].result.value = calls[c].args.data.json
            /\ ~calls[c].result.xml

\* parseFeatureCollection alone does pass every GeoJSON collection through.
C18_PassThroughAtParser ==
    \A c \in Slots :
        HasReturned(c, "parseFeatureCollection") /\ C18_IsGeoJson(calls[c].args) =>
            /\ calls[c].result.value = calls[c].args.data.json
            /\ ~calls[c].result.xml

\* parseFeatureResponse passes a collection through when its features array
\* is not empty.
C18_PassThroughNonEmpty ==
    \A c \in Slots :
        /\ HasReturned(c, "parseFeatureResponse")
        /\ C18_IsGeoJson(calls[c].args)
        /\ Get(calls[c].args.data.json, "features").a # <<>>
        => /\ calls[c].result.value = calls[c].args.data.json
           /\ ~calls[c].result.xml

\* An empty collection that carried timeStamp comes back without it,
\* after the text was parsed as XML.
C18_MemberLost ==
    \E c \in Slots :
        /\ HasReturned(c, "parseFeatureResponse")
        /\ Has(calls[c].args.data.json, "timeStamp")
        /\ calls[c].result = Parsed(emptyFeatureCollection, TRUE)

-----------------------------------------------------------------------------
(* parsers/transaction.ts.  A TransactionResult holds the four totals (a    *)
(* number n is <<n>>, undefined is <<>>) and the three action result lists; *)
(* raw, the parsed tree itself, is left out.                                *)

RECURSIVE getNodeByLocalName(_, _)
getNodeByLocalName(root, expected) ==
    LET entries == EntriesOf(root)
        hit(j) == IF localName(entries[j][1]) = <<expected>> /\ IsObject(entries[j][2])
                  THEN entries[j][2]
                  ELSE IF IsObject(entries[j][2])
                       THEN getNodeByLocalName(entries[j][2], expected)
                       ELSE NoValue
        found == {j \in 1..Len(entries) : hit(j).t # "undefined"}
    IN  IF ~IsObject(root) \/ found = {} THEN NoValue
        ELSE hit(CHOOSE j \in found : \A k \in found : j <= k)

\* a ?? b on tree values
firstByLocalName(node, name) ==
    LET prefixed == asArray(Field(node, <<"wfs", ":", name>>))
        bare == asArray(Field(node, <<name>>))
    IN  IF node.t = "undefined" THEN NoValue
        ELSE valueText(IF prefixed # <<>> THEN prefixed[1]
                       ELSE IF bare # <<>> THEN bare[1]
                       ELSE NoValue)

toNumber(value) ==
    IF NoText(value) THEN <<>>
    ELSE IF Len(value.v) = 1 /\ \E n \in 0..MaxCoordinate : ToString(n) = value.v[1]
         THEN << StringToNumber(value.v[1]) >>
    ELSE <<>>

ActionResult(handle, resourceIds) == [handle |-> handle, resourceIds |-> resourceIds]

\* record["@_name"] as string | undefined, then ?? and !!value
AttributeText(node, name) ==
    IF Field(node, AttrKey(name)).t = "text" THEN Field(node, AttrKey(name)).v ELSE <<>>

parseActionResults(txNode, localResultName) ==
    LET node == getNodeByLocalName(txNode, localResultName)
        featureNodes == collectNodesByLocalName(node, "Feature")
        resourceIdNodes(featureNode) == collectNodesByLocalName(featureNode, "ResourceId")
        idOf(resourceIdNode) ==
            IF Field(resourceIdNode, AttrKey("rid")).t # "undefined"
            THEN AttributeText(resourceIdNode, "rid")
            ELSE AttributeText(resourceIdNode, "fid")
        idsOf(featureNode) ==
            SelectSeq([i \in 1..Len(resourceIdNodes(featureNode)) |->
                          idOf(resourceIdNodes(featureNode)[i])],
                      LAMBDA id : id # <<>>)
    IN  IF node.t = "undefined" THEN <<>>
        ELSE [i \in 1..Len(featureNodes) |->
                 ActionResult(AttributeText(featureNodes[i], "handle"),
                              idsOf(featureNodes[i]))]

TransactionResult(inserted, updated, replaced, deleted, inserts, updates, replaces) ==
    [totalInserted |-> inserted, totalUpdated |-> updated,
     totalReplaced |-> replaced, totalDeleted |-> deleted,
     insertResults |-> inserts, updateResults |-> updates, replaceResults |-> replaces]

parseTransactionResult(payload) ==
    LET parsed == parseXml(payload)
        txNode == getNodeByLocalName(parsed, "TransactionResponse")
        summaryNode == getNodeByLocalName(txNode, "TransactionSummary")
    IN  IF txNode.t = "undefined"
        THEN TransactionResult(<<>>, <<>>, <<>>, <<>>, <<>>, <<>>, <<>>)
        ELSE TransactionResult(
                 toNumber(firstByLocalName(summaryNode, "totalInserted")),
                 toNumber(firstByLocalName(summaryNode, "totalUpdated")),
                 toNumber(firstByLocalName(summaryNode, "totalReplaced")),
                 toNumber(firstByLocalName(summaryNode, "totalDeleted")),
                 parseActionResults(txNode, "InsertResults"),
                 parseActionResults(txNode, "UpdateResults"),
                 parseActionResults(txNode, "ReplaceResults"))

-----------------------------------------------------------------------------
(* The TransactionResponse documents of the two dialects: WFS 1.1.0 names   *)
(* an inserted feature with ogc:FeatureId fid, WFS 2.0.x with fes:ResourceId *)
(* rid; the summary's elements carry the given prefix ("" for none).        *)

Prefixed(prefix, local) == IF prefix = "" THEN <<local>> ELSE QName(prefix, local)

TotalNames == <<"totalInserted", "totalUpdated", "totalReplaced", "totalDeleted">>

\* A total the summary reports, as its text; Undefined when it reports none.
TotalElement(prefix, name, total) ==
    IF total = Undefined THEN <<>>
    ELSE Element(Prefixed(prefix, name), <<>>, TextNode(<<total>>))

IdElement(version, id) ==
    IF version = "1.1.0"
    THEN << EmptyTag(QName("ogc", "FeatureId"), << <<"fid", id>> >>) >>
    ELSE << EmptyTag(QName("fes", "ResourceId"), << <<"rid", id>> >>) >>

TransactionResponseXml(report) ==
    Element(Wfs("TransactionResponse"), << <<"version", report.version>> >>,
        Element(Prefixed(report.prefix, "TransactionSummary"), <<>>,
            Flatten([i \in 1..Len(TotalNames) |->
                        TotalElement(report.prefix, TotalNames[i], report.totals[i])]))
        \o Element(Wfs("InsertResults"), <<>>,
               Element(Wfs("Feature"), << <<"handle", "insert-1">> >>,
                   Flatten([i \in 1..Len(report.ids) |->
                               IdElement(report.version, report.ids[i])]))))

TransactionVersions == {"1.1.0", "2.0.0"}

SummaryPrefixes == {"wfs", "", "ns0"}

ReportedTotals ==
    { <<inserted, updated, replaced, deleted>> :
          inserted \in {Undefined, "0", "1"}, updated \in {Undefined, "0"},
          replaced \in {Undefined, "0"}, deleted \in {Undefined, "0", "2"} }

ReportedIds == { <<>>, <<"roads.10">>, <<"roads.10", "roads.11">> }

TransactionReports ==
    [version : TransactionVersions, prefix : SummaryPrefixes,
     totals : ReportedTotals, ids : ReportedIds]

InitTransaction ==
    /\ config = WfsClientConfig("auto", EmptyMap, NoGeoServerConfig, EmptyMap)
    /\ negotiatedVersion = Undefined
    /\ capabilities = NoCapabilities
    /\ calls \in [Slots ->
          { FunctionCall("parseTransactionResult",
                         [payload |-> TransactionResponseXml(report), report |-> report]) :
              report \in TransactionReports }]

ParseTransactionResult(c) ==
    Return(c, "parseTransactionResult", parseTransactionResult(calls[c].args.payload))

NextTransaction == \E c \in Slots : ParseTransactionResult(c)

SpecTransaction == InitTransaction /\ [][NextTransaction]_vars

\* The identifiers the response reports for its inserted feature.
C19_Reported(report) == [i \in 1..Len(report.ids) |-> <<report.ids[i]>>]

C19_ResourceIds(result) ==
    IF result.insertResults = <<>> THEN <<>> ELSE result.insertResults[1].resourceIds

\* C19: parseTransactionResult collects the identifiers of ResourceId (rid)
\* and of FeatureId (fid) elements alike, so a WFS 1.1.0 response and a WFS
\* 2.0.x response reporting the same identifiers give the same resourceIds.
C19_SameResourceIds ==
    \A c \in Slots :
        HasReturned(c, "parseTransactionResult") =>
            /\ C19_ResourceIds(calls[c].result) = C19_Reported(calls[c].args.report)
            /\ \A version \in TransactionVersions :
                  C19_ResourceIds(calls[c].result) =
                  C19_ResourceIds(parseTransactionResult(TransactionResponseXml(
                      [calls[c].args.report EXCEPT !.version = version])))

\* The identifiers of a 2.0.x response are collected.
C19_ResourceIdsOf20 ==
    \A c \in Slots :
        HasReturned(c, "parseTransactionResult")
        /\ calls[c].args.report.version = "2.0.0" =>
            C19_ResourceIds(calls[c].result) = C19_Reported(calls[c].args.report)

\* A 1.1.0 response that reports roads.10 yields no identifier.
C19_FeatureIdLost ==
    \E c \in Slots :
        /\ HasReturned(c, "parseTransactionResult")
        /\ calls[c].args.report.version = "1.1.0"
        /\ calls[c].args.report.ids = <<"roads.10">>
        /\ calls[c].result.insertResults = << ActionResult(<<"insert-1">>, <<>>) >>

C20_Totals(result) ==
    << result.totalInserted, result.totalUpdated, result.totalReplaced,
       result.totalDeleted >>

C20_Expected(report) ==
    [i \in 1..Len(TotalNames) |->
        IF report.totals[i] = Undefined THEN <<>>
        ELSE << StringToNumber(report.totals[i]) >>]

\* C20: each total of the result is absent exactly when the summary does not
\* report it, whatever prefix the summary's elements carry; a reported total
\* is returned as its number, 0 included, and a missing one is never 0.
C20_TotalsAsReported ==
    \A c \in Slots :
        HasReturned(c, "parseTransactionResult") =>
            C20_Totals(calls[c].result) = C20_Expected(calls[c].args.report)

\* With the wfs prefix or none the totals are as reported.
C20_TotalsWfsOrBare ==
    \A c \in Slots :
        HasReturned(c, "parseTransactionResult")
        /\ calls[c].args.report.prefix \in {"wfs", ""} =>
            C20_Totals(calls[c].result) = C20_Expected(calls[c].args.report)

\* A summary under the ns0 prefix that reports 1 insertion and 2 deletions
\* yields no total at all.
C20_TotalsLost ==
    \E c \in Slots :
        /\ HasReturned(c, "parseTransactionResult")
        /\ calls[c].args.report.prefix = "ns0"
        /\ calls[c].args.report.totals = <<"1", "0", Undefined, "2">>
        /\ C20_Totals(calls[c].result) = << <<>>, <<>>, <<>>, <<>> >>

-----------------------------------------------------------------------------
(* The negotiated version over the life of an auto client.                  *)

\* The call has finished one version negotiation: it sent probes and is past
\* the last of them (one was accepted, or all of them failed).
C21_Negotiated(call) == Probes(call) # <<>> /\ call.pc # "probing"

\* The call was made without an explicit version on an auto client whose
\* negotiated version was cached already.
C21_Later(call) ==
    /\ call.pc # "idle" /\ ~StrategyIsFixed
    /\ call.options.version = Undefined /\ call.seen # Undefined

C21_State ==
    \A c \in DOMAIN calls :
       /\ (~StrategyIsFixed /\ C21_Negotiated(calls[c])) => negotiatedVersion # Undefined
       /\ C21_Later(calls[c]) =>
             /\ Probes(calls[c]) = <<>>
             /\ calls[c].version = calls[c].seen
             /\ \A i \in 1..Len(calls[c].reqs) :
                   calls[c].reqs[i].version = calls[c].seen

C21_Step == negotiatedVersion # Undefined => negotiatedVersion' # Undefined

-----------------------------------------------------------------------------
(* The probes of one version negotiation.                                   *)

C22_Chain == <<"2.0.2", "2.0.0", "1.1.0">>

\* The i-th probe of the call got a reply and the reply was a failure.
C22_Failed(call, i) ==
    /\ i <= Len(call.replies)
    /\ OperationFault(call.reqs[i], call.replies[i]).kind # "pending"

\* The i-th probe of the call got a reply that resolveVersion accepted.
C22_Accepted(call, i) ==
    /\ i <= Len(call.replies)
    /\ OperationFault(call.reqs[i], call.replies[i]).kind = "pending"

\* C22: the probes of one negotiation are the first requests of the call, go
\* out in the order 2.0.2, 2.0.0, 1.1.0, one per version and at most three;
\* each probe but the first is sent only after the one before it has failed,
\* and no probe follows an accepted one.
C22_ProbesInOrder ==
    \A c \in DOMAIN calls :
       LET call == calls[c]
           sent == Len(Probes(call))
       IN  /\ sent <= 3
           /\ \A i \in 1..sent :
                 /\ call.reqs[i].purpose = "probe"
                 /\ call.reqs[i].version = C22_Chain[i]
                 /\ i < sent => C22_Failed(call, i)
           /\ Len(call.replies) >= sent - 1
           /\ \A i \in 1..sent : C22_Accepted(call, i) => i = sent

\* A negotiation whose first two probes failed and whose third was accepted.
C22_Witness ==
    \E c \in DOMAIN calls :
       /\ Len(Probes(calls[c])) = 3
       /\ C22_Failed(calls[c], 1) /\ C22_Failed(calls[c], 2)
       /\ C22_Accepted(calls[c], 3)
       /\ calls[c].pc = "done"

-----------------------------------------------------------------------------
(* The number of operation requests of one call.                            *)

\* The call's first operation request got a reply and the reply was a fault.
C23_FirstFailed(call) ==
    /\ OperationReplies(call) # <<>>
    /\ OperationFault(OperationRequests(call)[1], OperationReplies(call)[1]).kind
          # "pending"

\* The call has handed an operation request to the transport.
C23_Sent(call) == call.pc \in {"awaiting", "retrying"} \/ OperationReplies(call) # <<>>

\* What the claim says of the methods in twice: the calls that hand exactly
\* one operation request, and those that hand one or two, the second only
\* after the first has failed.
C23_Exchanges(call, twice) ==
    LET sent == Len(OperationRequests(call))
    IN  /\ sent <= 2
        /\ C23_Sent(call) => sent >= 1
        /\ sent = 2 => twice /\ C23_FirstFailed(call)

\* The call runs the body of getFeature: it is a getFeature call or a
\* getPropertyValue call at 1.1.0.
C23_RunsGetFeature(call) ==
    \/ call.method = "getFeature"
    \/ call.method = "getPropertyValue" /\ call.version = "1.1.0"

\* C23 (as amended): not counting negotiation probes, a call hands one
\* operation request to the transport, except a getFeature call and a
\* getPropertyValue call at 1.1.0, which hand at most two GetFeature
\* requests, the second only after the first has failed.
C23_OneExchange ==
    \A c \in DOMAIN calls :
       /\ C23_Exchanges(calls[c], C23_RunsGetFeature(calls[c]))
       /\ Len(OperationRequests(calls[c])) = 2 =>
             \A i \in 1..2 : OperationRequests(calls[c])[i].operation = "GetFeature"

\* C23 as stated: only a getFeature call hands a second request.
C23_AsStated ==
    \A c \in DOMAIN calls :
       C23_Exchanges(calls[c], calls[c].method = "getFeature")

\* A getFeature call that sent its second request after a fault of the first,
\* and finished.
C23_Witness ==
    \E c \in DOMAIN calls :
       /\ calls[c].method = "getFeature" /\ calls[c].pc = "done"
       /\ Len(OperationRequests(calls[c])) = 2
       /\ C23_FirstFailed(calls[c])

-----------------------------------------------------------------------------
(* Concurrent calls on one client.  Every await of the client's code is a   *)
(* point where another call's continuation may run, so what Invoke and      *)
(* ProbeReply do in one step for a single caller is split here at the       *)
(* return of resolveVersion: the public method awaits it, and goes on to    *)
(* its first sendOperation in a later step (Resume).                        *)

\* A public method is called: resolveVersion runs up to its first await, and
\* either hands the first probe to the transport or returns a version that
\* the method receives when it resumes.
Enter(c, method, options) ==
    /\ calls[c].pc = "idle"
    /\ LET resolved == resolveVersion(config, negotiatedVersion, options.version)
           call == [IdleCall EXCEPT !.method = method, !.options = options,
                                    !.seen = negotiatedVersion]
       IN  calls' = [calls EXCEPT ![c] =
              IF resolved.negotiate
              THEN [call EXCEPT !.pc = "probing",
                                !.reqs = << ProbeRequest(config, FallbackOf(config)[1]) >>]
              ELSE [call EXCEPT !.pc = "resolved", !.version = resolved.version]]
    /\ UNCHANGED <<config, negotiatedVersion, capabilities>>

\* The transport answers the probe in flight: resolveVersion's loop from one
\* await to the next, or to its return.
ProbeSettled(c, reply) ==
    /\ calls[c].pc = "probing"
    /\ LET call == [calls[c] EXCEPT !.replies = Append(calls[c].replies, reply)]
           probe == Last(call.reqs)
           fallback == FallbackOf(config)
           sent == Len(call.reqs)
           failed == OperationFault(probe, reply).kind # "pending"
           parsed == parseCapabilities(rawDataOf(reply.body))
           accepted == Coalesce(parsed.version, probe.version)
       IN  IF ~failed
           THEN /\ capabilities' = parsed
                /\ negotiatedVersion' = accepted
                /\ calls' = [calls EXCEPT ![c] =
                                [call EXCEPT !.pc = "resolved", !.version = accepted]]
           ELSE IF sent < Len(fallback)
           THEN /\ calls' = [calls EXCEPT ![c] =
                                [call EXCEPT !.reqs =
                                    Append(call.reqs, ProbeRequest(config, fallback[sent + 1]))]]
                /\ UNCHANGED <<negotiatedVersion, capabilities>>
           ELSE /\ negotiatedVersion' = negotiationDefault(config)
                /\ calls' = [calls EXCEPT ![c] =
                                [call EXCEPT !.pc = "resolved",
                                             !.version = negotiationDefault(config)]]
                /\ UNCHANGED capabilities
    /\ UNCHANGED config

\* The public method resumes with the version resolveVersion returned and
\* runs to its first sendOperation; the getFeature that getPropertyValue
\* calls at 1.1.0 reads the cached negotiated version as it is now.
Resume(c) ==
    /\ calls[c].pc = "resolved"
    /\ calls' = [calls EXCEPT ![c] =
          Dispatch(config, capabilities, negotiatedVersion, calls[c], calls[c].version)]
    /\ UNCHANGED <<config, negotiatedVersion, capabilities>>

ConcurrentSlots == {"first", "second"}

ConcurrentMethods == {"getPropertyValue", "describeFeatureType", "getCapabilities"}

ConcurrentProbeReplies ==
    { Rejection("ECONNRESET"), Response(200, Named("caps20")),
      Response(200, Named("caps11")) }

ConcurrentReplies ==
    { Response(200, Named(name)) : name \in {"caps20", "fcJson", "excInvalidParameter"} }

InitConcurrent ==
    /\ config = WfsClientConfig("auto", RoadsNamespaces, NoGeoServerConfig, EmptyMap)
    /\ negotiatedVersion = Undefined
    /\ capabilities = NoCapabilities
    /\ calls = [c \in ConcurrentSlots |-> IdleCall]

NextConcurrent ==
    \/ \E c \in ConcurrentSlots, method \in ConcurrentMethods :
          Enter(c, method, DefaultOptions)
    \/ \E c \in ConcurrentSlots, reply \in ConcurrentProbeReplies : ProbeSettled(c, reply)
    \/ \E c \in ConcurrentSlots : Resume(c)
    \/ \E c \in ConcurrentSlots, reply \in ConcurrentReplies : OpReply(c, reply)
    \/ \E c \in ConcurrentSlots, reply \in ConcurrentReplies : RetryReply(c, reply)

SpecConcurrent == InitConcurrent /\ [][NextConcurrent]_vars

\* The accepted probes of the calls: the call and the index of the probe.
C24_AcceptedProbes ==
    { p \in ConcurrentSlots \X (1..3) :
         /\ p[2] <= Len(Probes(calls[p[1]]))
         /\ C22_Accepted(calls[p[1]], p[2]) }

\* The cached capabilities and the cached negotiated version are those that
\* resolveVersion stored for accepted probe p.
C24_CachedFrom(p) ==
    LET call == calls[p[1]]
        parsed == parseCapabilities(rawDataOf(call.replies[p[2]].body))
    IN  /\ capabilities = parsed
        /\ negotiatedVersion = Coalesce(parsed.version, call.reqs[p[2]].version)

\* Every call has finished, and none of them was a getCapabilities call,
\* which writes the caches from its own response.
C24_AllFinished ==
    \A c \in ConcurrentSlots :
       calls[c].pc = "done" /\ calls[c].method # "getCapabilities"

\* C24: once the concurrent calls on an unnegotiated auto client have all
\* finished and a probe of any of them was accepted, the cached negotiated
\* version and the cached capabilities are those of one accepted probe: the
\* default written by a negotiation whose probes all failed has not replaced
\* the version of an accepted probe.
C24_DuplicateNegotiationHarmless ==
    (C24_AllFinished /\ C24_AcceptedProbes # {}) =>
       \E p \in C24_AcceptedProbes : C24_CachedFrom(p)

\* Two finished calls that both negotiated, one of them with an accepted probe.
C24_Witness ==
    /\ C24_AllFinished /\ C24_AcceptedProbes # {}
    /\ \A c \in ConcurrentSlots : Probes(calls[c]) # <<>>

\* C25: a getPropertyValue call whose version resolved to 1.1.0 sends its
\* delegated GetFeature requests at 1.1.0, whatever other calls do meanwhile.
C25_DelegatedAtResolvedVersion ==
    \A c \in ConcurrentSlots :
       (calls[c].method = "getPropertyValue" /\ calls[c].delegated
           /\ calls[c].version = "1.1.0") =>
          \A i \in 1..Len(OperationRequests(calls[c])) :
             /\ OperationRequests(calls[c])[i].operation = "GetFeature"
             /\ OperationRequests(calls[c])[i].version = "1.1.0"

\* A getPropertyValue call that resolved to 1.1.0 and has sent its delegated
\* request while the other call was in progress.
C25_Witness ==
    \E c \in ConcurrentSlots, d \in ConcurrentSlots :
       /\ c # d /\ calls[d].pc \notin {"idle", "done"}
       /\ calls[c].method = "getPropertyValue" /\ calls[c].delegated
       /\ calls[c].version = "1.1.0" /\ OperationRequests(calls[c]) # <<>>

-----------------------------------------------------------------------------
(* A client with a fixed version strategy.                                  *)

\* C26: on a client whose version strategy is a fixed version no call sends
\* a negotiation probe, the negotiated version stays unset (also after a
\* getCapabilities call whose document reports another version), and every
\* call without an explicit version goes out at the configured version.
C26_FixedStrategy ==
    StrategyIsFixed =>
       /\ negotiatedVersion = Undefined
       /\ \A c \in DOMAIN calls :
             /\ Probes(calls[c]) = <<>>
             /\ (calls[c].pc # "idle" /\ calls[c].options.version = Undefined) =>
                   /\ calls[c].version = config.versionStrategy
                   /\ \A i \in 1..Len(calls[c].reqs) :
                         calls[c].reqs[i].version = config.versionStrategy

\* A getCapabilities call on a fixed client returned a document that reports
\* another version than the configured one, and the document was cached.
C26_Witness ==
    \E c \in DOMAIN calls :
       /\ StrategyIsFixed
       /\ calls[c].method = "getCapabilities" /\ calls[c].pc = "done"
       /\ calls[c].options.version = Undefined
       /\ calls[c].outcome.kind = "returned"
       /\ capabilities.version # Undefined
       /\ capabilities.version # config.versionStrategy

-----------------------------------------------------------------------------
(* The values of the cached negotiated version: an auto client against a    *)
(* server whose capabilities documents report WFS 1.0.0 as well.            *)

ReportedMethods == {"getCapabilities", "describeFeatureType"}

ReportedProbeReplies ==
    { Rejection("ECONNRESET"), Response(200, Named("caps10")),
      Response(200, Named("caps20")), Response(200, Named("capsNoVersion")) }

ReportedReplies ==
    { Rejection("ECONNRESET"), Response(200, Named("caps10")),
      Response(200, Named("caps11")), Response(200, Named("excNotSupported")) }

InitReported ==
    /\ config = WfsClientConfig("auto", RoadsNamespaces, NoGeoServerConfig, EmptyMap)
    /\ negotiatedVersion = Undefined
    /\ capabilities = NoCapabilities
    /\ calls = [c \in Slots |-> IdleCall]

NextReported ==
    \/ \E c \in Slots, method \in ReportedMethods, options \in DispatchOptions :
          Invoke(c, method, options)
    \/ \E c \in Slots, reply \in ReportedProbeReplies : ProbeReply(c, reply)
    \/ \E c \in Slots, reply \in ReportedReplies : OpReply(c, reply)

SpecReported == InitReported /\ [][NextReported]_vars

\* C27: the cached negotiated version is unset or one of the supported
\* versions 2.0.2, 2.0.0 and 1.1.0, whatever version the capabilities
\* documents of the server report.
C27_NegotiatedIsSupported ==
    negotiatedVersion \in {Undefined, "2.0.2", "2.0.0", "1.1.0"}

\* A probe of a negotiation was answered with a capabilities document that
\* reports version 1.0.0, and was accepted.
C27_Witness ==
    \E c \in Slots :
       /\ Probes(calls[c]) # <<>>
       /\ C22_Accepted(calls[c], Len(Probes(calls[c])))
       /\ parseCapabilities(rawDataOf(
             calls[c].replies[Len(Probes(calls[c]))].body)).version = "1.0.0"

-----------------------------------------------------------------------------
(* The parts of an operation request: calls in both request styles, with    *)
(* and without raw KVP entries, GeoServer vendor inputs and raw headers, on *)
(* a client with GeoServer support enabled.                                 *)

RequestConfigs ==
    { WfsClientConfig("2.0.0", RoadsNamespaces,
                      [enabled |-> TRUE, defaultVendorParams |-> ( "strict" :> "true" )],
                      EmptyMap) }

RequestMethods == {"getFeature", "getPropertyValue", "transaction"}

RequestHeaderTables ==
    { EmptyMap, ( "X-Request-Id" :> "r1" ), ( "Content-Type" :> "application/xml" ) }

RequestCallOptions ==
    { [DefaultOptions EXCEPT !.requestStyle = requestStyle, !.rawKvp = rawKvp,
                             !.geoserver = geoserver, !.rawHeaders = rawHeaders] :
          requestStyle \in {Undefined, "GET", "POST"},
          rawKvp \in {EmptyMap, ( "maxFeatures" :> "5" )},
          geoserver \in { NoGeoServer,
                          GeoServerOptions("POP > 10", Undefined, Undefined,
                                           ( "env" :> "color:red" )) },
          rawHeaders \in RequestHeaderTables }

InitRequest ==
    /\ config \in RequestConfigs
    /\ negotiatedVersion = Undefined
    /\ capabilities = NoCapabilities
    /\ calls = [c \in Slots |-> IdleCall]

NextRequest ==
    \/ \E c \in Slots, method \in RequestMethods, options \in RequestCallOptions :
          Invoke(c, method, options)
    \/ \E c \in Slots, reply \in DispatchReplies : OpReply(c, reply)
    \/ \E c \in Slots, reply \in DispatchReplies : RetryReply(c, reply)

SpecRequest == InitRequest /\ [][NextRequest]_vars

\* The call's options without the inputs that exist only as KVP.
C28_WithoutKvpInputs(options) ==
    [options EXCEPT !.rawKvp = EmptyMap, !.geoserver = NoGeoServer]

\* The first operation request of the call, built from other options.
C28_FirstRequestOf(call, options) ==
    BuildOperation(config, NoCapabilities, InnerMethod(call), call.version,
                   RequestOptions(config, InnerMethod(call), options)).request

\* A GET request has query parameters and no body, a POST request has a body
\* and no query parameters; contentType is the Content-Type a POST carries.
C28_Parts(request, contentType) ==
    /\ request.method \in {"GET", "POST"}
    /\ request.method = "GET" =>
          /\ request.params.def /\ ~request.data.def
          /\ "service" \in DOMAIN request.params.kvp
    /\ request.method = "POST" =>
          /\ request.data.def /\ ~request.params.def
          /\ request.data.doc.root = request.operation
          /\ "Content-Type" \in DOMAIN request.headers
          /\ request.headers["Content-Type"] = contentType

\* The consequences the claim draws, on the first operation request: the
\* document of a POST is the one built without raw.kvp and vendor inputs,
\* and a GET transaction carries the simple KVP and nothing of its actions.
C28_Consequences(call) ==
    LET first == OperationRequests(call)[1]
    IN  /\ first.method = "POST" =>
              first.data = C28_FirstRequestOf(call, C28_WithoutKvpInputs(call.options)).data
        /\ (first.method = "GET" /\ call.method = "transaction") =>
              first.params.kvp =
                 buildSimpleKvp("Transaction", first.version, call.options.rawKvp)

\* C28 (as amended): every operation request carries either query
\* parameters (GET) or the XML document (POST), never both; the Content-Type
\* of a POST is text/xml unless the caller's raw headers name another one.
C28_ParamsOrBody ==
    \A c \in DOMAIN calls :
       /\ \A i \in 1..Len(OperationRequests(calls[c])) :
             C28_Parts(OperationRequests(calls[c])[i],
                       IF "Content-Type" \in DOMAIN calls[c].options.rawHeaders
                       THEN calls[c].options.rawHeaders["Content-Type"]
                       ELSE "text/xml; charset=UTF-8")
       /\ OperationRequests(calls[c]) # <<>> => C28_Consequences(calls[c])

\* C28 as stated: the Content-Type of every POST is text/xml.
C28_AsStated ==
    \A c \in DOMAIN calls :
       /\ \A i \in 1..Len(OperationRequests(calls[c])) :
             C28_Parts(OperationRequests(calls[c])[i], "text/xml; charset=UTF-8")
       /\ OperationRequests(calls[c]) # <<>> => C28_Consequences(calls[c])

\* A POST getFeature call with raw KVP entries and vendor inputs has sent
\* its request.
C28_Witness ==
    \E c \in DOMAIN calls :
       /\ calls[c].method = "getFeature" /\ calls[c].pc = "awaiting"
       /\ calls[c].options.rawKvp # EmptyMap /\ calls[c].options.geoserver.given
       /\ calls[c].reqs[1].method = "POST" /\ calls[c].reqs[1].data.def

-----------------------------------------------------------------------------
(* The order of the xmlns declarations.  A JavaScript object is carried     *)
(* here as its entries <<key, value>> in insertion order, which is the      *)
(* order Object.entries lists them in; the caller's namespace table is such *)
(* an object.                                                               *)

HasEntry(entries, key) == \E i \in 1..Len(entries) : entries[i][1] = key

\* object[key], undefined when the object has no such key
EntryOf(entries, key) ==
    IF HasEntry(entries, key)
    THEN entries[CHOOSE i \in 1..Len(entries) : entries[i][1] = key][2]
    ELSE Undefined

\* object[key] = value: an existing key keeps its place
SetEntry(entries, key, value) ==
    IF HasEntry(entries, key)
    THEN [i \in 1..Len(entries) |->
             IF entries[i][1] = key THEN <<key, value>> ELSE entries[i]]
    ELSE Append(entries, <<key, value>>)

\* The letters of the prefixes used below, as positions in the alphabet.
Spelling ==
    ( <<"app">> :> <<1, 16, 16>> @@ <<"sf">> :> <<19, 6>>
      @@ <<"topp">> :> <<20, 15, 16, 16>> @@ <<"tiger">> :> <<20, 9, 7, 5, 18>>
      @@ <<"gml">> :> <<7, 13, 12>> )

RECURSIVE CompareLetters(_, _)
CompareLetters(a, b) ==
    CASE a = <<>> /\ b = <<>> -> 0
      [] a = <<>> /\ b # <<>> -> -1
      [] a # <<>> /\ b = <<>> -> 1
      [] OTHER -> IF Head(a) < Head(b) THEN -1
                  ELSE IF Head(a) > Head(b) THEN 1
                  ELSE CompareLetters(Tail(a), Tail(b))

\* a.localeCompare(b) on lower-case ASCII names
localeCompare(a, b) == CompareLetters(Spelling[a], Spelling[b])

\* Array.prototype.sort with the comparator ([a], [b]) => a.localeCompare(b):
\* a stable sort, here by insertion from the left.
RECURSIVE InsertEntry(_, _)
InsertEntry(sorted, entry) ==
    IF sorted = <<>> THEN <<entry>>
    ELSE IF localeCompare(entry[1], Last(sorted)[1]) >= 0
    THEN Append(sorted, entry)
    ELSE Append(InsertEntry(SubSeq(sorted, 1, Len(sorted) - 1), entry), Last(sorted))

RECURSIVE SortEntries(_)
SortEntries(entries) ==
    IF entries = <<>> THEN <<>>
    ELSE InsertEntry(SortEntries(SubSeq(entries, 1, Len(entries) - 1)), Last(entries))

\* defaultNamespacesForVersion as the object literal lists its keys
DefaultEntries(version) ==
    [i \in 1..Len(ROOT_PREFIX_ORDER) |->
        <<ROOT_PREFIX_ORDER[i], <<defaultNamespacesForVersion(version)[ROOT_PREFIX_ORDER[i]]>> >>]

\* resolveRootNamespaces, the loop over Object.entries(ctx.namespaces): the
\* entries with a URI are assigned to the defaults one after the other.
RECURSIVE AssignEntries(_, _)
AssignEntries(namespaces, table) ==
    IF table = <<>> THEN namespaces
    ELSE AssignEntries(IF Head(table)[2] = <<>> THEN namespaces
                       ELSE SetEntry(namespaces, Head(table)[1], Head(table)[2]),
                       Tail(table))

ListedInRootOrder(prefix) ==
    \E i \in 1..Len(ROOT_PREFIX_ORDER) : ROOT_PREFIX_ORDER[i] = prefix

Declaration(entry) == [prefix |-> entry[1], uri |-> escapeXml(entry[2])]

\* rootXmlns with the extra entries in the order Object.entries lists them.
rootXmlnsUnsorted(namespaces) ==
    LET orderedEntries ==
            SelectSeq([i \in 1..Len(ROOT_PREFIX_ORDER) |->
                          <<ROOT_PREFIX_ORDER[i], EntryOf(namespaces, ROOT_PREFIX_ORDER[i])>>],
                      LAMBDA e : e[2] # Undefined /\ e[2] # <<>>)
        extraEntries ==
            SelectSeq(SelectSeq(namespaces, LAMBDA e : ~ListedInRootOrder(e[1])),
                      LAMBDA e : e[2] # <<>>)
        all == orderedEntries \o extraEntries
    IN  [i \in 1..Len(all) |-> Declaration(all[i])]

\* rootXmlns on the entries of the namespaces object: the declarations in the
\* order they are written.
rootXmlnsEntries(namespaces) ==
    LET orderedEntries ==
            SelectSeq([i \in 1..Len(ROOT_PREFIX_ORDER) |->
                          <<ROOT_PREFIX_ORDER[i], EntryOf(namespaces, ROOT_PREFIX_ORDER[i])>>],
                      LAMBDA e : e[2] # Undefined /\ e[2] # <<>>)
        extraEntries ==
            SortEntries(
                SelectSeq(SelectSeq(namespaces, LAMBDA e : ~ListedInRootOrder(e[1])),
                          LAMBDA e : e[2] # <<>>))
        all == orderedEntries \o extraEntries
    IN  [i \in 1..Len(all) |-> Declaration(all[i])]

MaxTable == 3

\* The entries a caller's namespace table is made of: application prefixes,
\* one of them without a URI, and a protocol prefix given another URI.
TableEntries ==
    { << <<"topp">>, <<"http://www.openplans.org/topp">> >>,
      << <<"app">>, <<"http://example.test/app?a=1", "&", "b=2">> >>,
      << <<"sf">>, <<"http://example.test/sf">> >>,
      << <<"tiger">>, <<>> >>,
      << <<"gml">>, <<"http://example.test/gml">> >> }

\* The tables of at most MaxTable entries with distinct keys, in every order.
OrderedTables ==
    { table \in UNION { [1..n -> TableEntries] : n \in 0..MaxTable } :
         \A i, j \in 1..Len(table) : table[i][1] = table[j][1] => i = j }

XmlnsVersions == {"1.1.0", "2.0.0"}

InitXmlns ==
    /\ config = WfsClientConfig("auto", EmptyMap, NoGeoServerConfig, EmptyMap)
    /\ negotiatedVersion = Undefined
    /\ capabilities = NoCapabilities
    /\ calls \in [Slots ->
          { FunctionCall("rootXmlns", [table |-> table, version |-> version]) :
              table \in OrderedTables, version \in XmlnsVersions }]

\* resolveRootNamespaces(ctx, new Set()) and rootXmlns on its result, as the
\* document builders call them.
RootXmlnsWith(c, declare(_)) ==
    Return(c, "rootXmlns",
           declare(AssignEntries(DefaultEntries(calls[c].args.version),
                                 calls[c].args.table)))

RootXmlns(c) == RootXmlnsWith(c, rootXmlnsEntries)

NextXmlns == \E c \in Slots : RootXmlns(c)

SpecXmlns == InitXmlns /\ [][NextXmlns]_vars

\* The mappings of a table: what it says whatever the order of its entries.
C29_Mappings(table) == { table[i] : i \in 1..Len(table) }

\* The declarations of another table, for the same version.
C29_DeclarationsOf(table, version) ==
    rootXmlnsEntries(AssignEntries(DefaultEntries(version), table))

\* The position of a prefix in the fixed order, 0 when it is not listed.
C29_Listed(prefix) ==
    IF ListedInRootOrder(prefix)
    THEN CHOOSE i \in 1..Len(ROOT_PREFIX_ORDER) : ROOT_PREFIX_ORDER[i] = prefix
    ELSE 0

\* declarations[i] comes before declarations[j] in the order of the claim
C29_InOrder(first, second) ==
    \/ C29_Listed(first) > 0 /\ C29_Listed(second) = 0
    \/ C29_Listed(first) > 0 /\ C29_Listed(first) < C29_Listed(second)
    \/ /\ C29_Listed(first) = 0 /\ C29_Listed(second) = 0
       /\ CompareLetters(Spelling[first], Spelling[second]) < 0

\* C29: the xmlns declarations depend only on the set of mappings of the
\* caller's table, not on the order of its entries: the protocol prefixes
\* present come first in the order wfs, gml, fes, ogc, ows, xlink, the other
\* prefixes follow in alphabetical order, and each prefix with a URI is
\* declared once.
C29_DeterministicOrder ==
    \A c \in Slots :
       HasReturned(c, "rootXmlns") =>
          LET declared == calls[c].result
              table == calls[c].args.table
          IN  /\ \A other \in OrderedTables :
                    C29_Mappings(other) = C29_Mappings(table) =>
                       C29_DeclarationsOf(other, calls[c].args.version) = declared
              /\ \A i, j \in 1..Len(declared) :
                    i < j => C29_InOrder(declared[i].prefix, declared[j].prefix)
              /\ \A i \in 1..Len(table) :
                    table[i][2] # <<>> =>
                       \E j \in 1..Len(declared) :
                          /\ declared[j].prefix = table[i][1]
                          /\ declared[j].uri = escapeXml(table[i][2])

\* The declarations of a table that lists topp before app and overrides gml:
\* gml is declared in its protocol place, app before topp.
C29_Witness ==
    \E c \in Slots :
       /\ HasReturned(c, "rootXmlns")
       /\ Len(calls[c].args.table) = 3
       /\ calls[c].args.table[1][1] = <<"topp">>
       /\ calls[c].args.table[2][1] = <<"gml">>
       /\ calls[c].args.table[3][1] = <<"app">>
       /\ Len(calls[c].result) = 8
       /\ calls[c].result[2] = [prefix |-> <<"gml">>, uri |-> <<"http://example.test/gml">>]
       /\ calls[c].result[7].prefix = <<"app">>
       /\ calls[c].result[8].prefix = <<"topp">>

-----------------------------------------------------------------------------
(* The envelope of a bbox filter: geometries of the six types with          *)
(* coordinates of either sign, in two and three dimensions, with empty      *)
(* coordinate arrays at every depth.                                        *)

MaxPositions == 2

Ordinates == {-1, 0, 2}

BoundsPositions ==
    { <<x, y>> : x \in Ordinates, y \in Ordinates } \cup { <<2, -1, 5>>, <<-1, 2, -3>> }

\* The position arrays of at most MaxPositions positions.
BoundsLines == UNION { [1..n -> BoundsPositions] : n \in 0..MaxPositions }

BoundsRings ==
    { <<>>, << <<0, 0>>, <<0, 2>>, <<2, 2>>, <<0, 0>> >>,
      << <<-1, -1>>, <<-1, 0>>, <<0, 0>>, <<-1, -1>> >> }

BoundsGeometries ==
    { Geometry("Point", p) : p \in BoundsPositions \cup { <<>> } }
    \cup { Geometry(type, line) : type \in {"LineString", "MultiPoint"}, line \in BoundsLines }
    \cup { Geometry(type, lines) :
              type \in {"Polygon", "MultiLineString"},
              lines \in { <<>> } \cup { <<line>> : line \in BoundsLines }
                        \cup { <<a, b>> : a \in BoundsRings, b \in BoundsRings } }
    \cup { Geometry("MultiPolygon", polygons) :
              polygons \in { <<>>, << <<>> >> }
                           \cup { << <<a>>, <<b, a>> >> : a \in BoundsRings, b \in BoundsRings }
                           \cup { << <<line>> >> : line \in BoundsLines } }

InitBounds ==
    /\ config = WfsClientConfig("auto", EmptyMap, NoGeoServerConfig, EmptyMap)
    /\ negotiatedVersion = Undefined
    /\ capabilities = NoCapabilities
    /\ calls \in [Slots ->
          { FunctionCall("compileSpatialFilter",
                [filter |-> SpatialFilter("bbox", <<"geom">>, geometry, Undefined),
                 options |-> CompileFilterOptions("2.0.0", "EPSG:4326", FALSE)]) :
              geometry \in BoundsGeometries }]

\* compileSpatialFilter on a bbox filter: the envelope geometryBounds returns
\* and the element it is written into.
CompileSpatialWith(c, bounds(_)) ==
    Return(c, "compileSpatialFilter",
           [bbox |-> bounds(calls[c].args.filter.geometry),
            xml |-> compileSpatialFilter(calls[c].args.filter, calls[c].args.options)])

CompileSpatialFilter(c) == CompileSpatialWith(c, geometryBounds)

NextBounds == \E c \in Slots : CompileSpatialFilter(c)

SpecBounds == InitBounds /\ [][NextBounds]_vars

\* The positions of a geometry, type by type.
C30_Positions(geometry) ==
    LET c == geometry.coordinates
    IN  CASE geometry.type = "Point" -> IF c = <<>> THEN <<>> ELSE <<c>>
          [] geometry.type \in {"LineString", "MultiPoint"} -> c
          [] geometry.type \in {"Polygon", "MultiLineString"} -> Flatten(c)
          [] geometry.type = "MultiPolygon" ->
                Flatten([i \in 1..Len(c) |-> Flatten(c[i])])

\* The text of the i-th text node of a document.
C30_Texts(xml) ==
    LET nodes == SelectSeq(xml, LAMBDA token : token.k = "text")
    IN  [i \in 1..Len(nodes) |-> nodes[i].name]

\* C30: the envelope compiled for a bbox filter is [min x, min y, max x,
\* max y] over every position of the geometry, whatever its type and
\* nesting: min x <= max x, min y <= max y, every position lies inside and
\* each side is touched by a position; a geometry without a position
\* compiles to the envelope [0, 0, 0, 0].  The corners are written as
\* "min x min y" and "max x max y".
C30_Envelope ==
    \A c \in Slots :
       HasReturned(c, "compileSpatialFilter") =>
          LET positions == C30_Positions(calls[c].args.filter.geometry)
              bbox == calls[c].result.bbox
              texts == C30_Texts(calls[c].result.xml)
          IN  /\ positions = <<>> => bbox = <<0, 0, 0, 0>>
              /\ positions # <<>> =>
                    /\ bbox[1] <= bbox[3] /\ bbox[2] <= bbox[4]
                    /\ \A i \in 1..Len(positions) :
                          /\ bbox[1] <= positions[i][1] /\ positions[i][1] <= bbox[3]
                          /\ bbox[2] <= positions[i][2] /\ positions[i][2] <= bbox[4]
                    /\ \E i \in 1..Len(positions) : positions[i][1] = bbox[1]
                    /\ \E i \in 1..Len(positions) : positions[i][2] = bbox[2]
                    /\ \E i \in 1..Len(positions) : positions[i][1] = bbox[3]
                    /\ \E i \in 1..Len(positions) : positions[i][2] = bbox[4]
              /\ Len(texts) = 3
              /\ texts[2] = coords(<<bbox[1], bbox[2]>>)
              /\ texts[3] = coords(<<bbox[3], bbox[4]>>)

\* A MultiPolygon of two polygons, the second with a hole, whose envelope
\* runs from (-1, -1) to (2, 2).
C30_Witness ==
    \E c \in Slots :
       /\ HasReturned(c, "compileSpatialFilter")
       /\ calls[c].args.filter.geometry.type = "MultiPolygon"
       /\ Len(calls[c].args.filter.geometry.coordinates) = 2
       /\ Len(C30_Positions(calls[c].args.filter.geometry)) = 12
       /\ calls[c].result.bbox = <<-1, -1, 2, 2>>

\* A Polygon whose rings are all empty: the envelope is [0, 0, 0, 0].
C30_WitnessEmpty ==
    \E c \in Slots :
       /\ HasReturned(c, "compileSpatialFilter")
       /\ calls[c].args.filter.geometry = Geometry("Polygon", << <<>>, <<>> >>)
       /\ calls[c].result.bbox = <<0, 0, 0, 0>>

====
